---- MODULE Spec2Model ----
(***************************************************************************)
(* Model of the plot interaction pipeline of egui_plot: the action queue   *)
(* (action.rs), the action executor ActionExecutor::apply and the event    *)
(* synthesis PlotAction::as_event (collect_events.rs), followed by the     *)
(* interval algebra (bound.rs), the spans (span.rs, span_utils.rs), the    *)
(* columnar plot items (items/) and the events buffer of the result.       *)
(*                                                                         *)
(* f64 values are modelled by integers; the two infinities are the         *)
(* integers INFINITY and NEG_INFINITY, which no finite value of the model  *)
(* reaches.  Option<T> is modelled by a sequence: <<>> is None and <<v>>   *)
(* is Some(v).  Vec2b is a record [x, y] of booleans, Vec2 and PlotPoint   *)
(* are records [x, y], RangeInclusive<f64> is a record [start, end].       *)
(***************************************************************************)
EXTENDS Integers, Sequences, FiniteSets, TLC

VARIABLES
    queue,        \* ActionQueue::actions of the queue of the frame
    bounds,       \* the bounds the host holds
    auto_bounds,  \* the auto-bounds flags the host holds
    applied,      \* the AppliedActions the last call of apply returned
    pc,           \* "build", "applied" or "drained"
    calls,        \* history: the calls of apply, with arguments and result
    submitted,    \* history: the actions submitted to the queue, in order
    observed,     \* the value the last call returned, if it was a query
    interval,     \* the Interval the interval algebra works on
    made_by,      \* history: the call that made `interval`, with its arguments
    plot_item,    \* the plot item (ColumnarSeries or Band) constructed last
    gesture,      \* the state of the host's gesture recognition
    appended,     \* history: the events pushed through events_mut since apply returned
    handed,       \* history: the events take_events returned since apply returned
    log           \* history: the events handed over to the consumer, all frames

vars ==
    <<queue, bounds, auto_bounds, applied, pc, calls, submitted, observed,
      interval, made_by, plot_item, gesture, appended, handed, log>>

\* the variables of the interval algebra, which the pipeline leaves alone
interval_vars == <<interval, made_by>>
\* the variables of the plot items
item_vars == <<plot_item>>
\* the variables of the interaction pass that follows apply
gesture_vars == <<gesture, appended, handed, log>>

(***************************************************************************)
(* Bounds of the model.                                                    *)
(***************************************************************************)
\* number of actions submitted to the queue of a frame
MaxQueue == 3
\* number of frames (calls of apply) of a behaviour of SpecFrames, and
\* number of actions submitted to the queue of each of them
MaxFrames == 2
MaxFrameQueue == 1
\* number of actions submitted to the queue of SpecQueue
MaxQueueLen == 3
\* the finite values of the ends of the intervals are 0..MaxValue
MaxValue == 2
\* the slices given to the constructors of the plot items have 0..MaxLen
\* samples
MaxLen == 3
\* at most MaxItems plot items are added to the queue of one frame
MaxItems == 2
\* number of actions submitted to the queue of SpecEvents, and number of
\* events pushed through events_mut in a behaviour of SpecEvents or SpecGesture
MaxEventQueue == 2
MaxEvents == 4

(***************************************************************************)
(* Values                                                                  *)
(***************************************************************************)
INFINITY == 1000000
NEG_INFINITY == -INFINITY
\* f64::NAN: is_finite is false of it and of the two infinities, and every
\* comparison with it is false
NAN == 2000000

is_finite(x) == x \notin {INFINITY, NEG_INFINITY, NAN}
f64_lt(a, b) == a # NAN /\ b # NAN /\ a < b
f64_le(a, b) == a # NAN /\ b # NAN /\ a <= b
f64_gt(a, b) == a # NAN /\ b # NAN /\ a > b
f64_ge(a, b) == a # NAN /\ b # NAN /\ a >= b

None == <<>>
Some(v) == <<v>>

Vec2b(x, y) == [x |-> x, y |-> y]
Vec2(x, y) == [x |-> x, y |-> y]
PlotPoint(x, y) == [x |-> x, y |-> y]
RangeInclusive(s, e) == [start |-> s, end |-> e]

\* PlotBounds { min: [f64; 2], max: [f64; 2] }
PlotBounds(mn, mx) == [min |-> mn, max |-> mx]

\* PlotBounds::NOTHING, the sentinel empty bounds.
NOTHING == PlotBounds(<<INFINITY, INFINITY>>, <<NEG_INFINITY, NEG_INFINITY>>)

\* `delta.x as f64`: the widening of an f32 is exact.
F32ToF64(v) == v

(***************************************************************************)
(* Payloads the builder submits.  A range may be given in either order:    *)
(* RangeInclusive does not order its ends.                                 *)
(***************************************************************************)
Items == {"i1", "i2"}
Shapes == {"s1", "s2"}
RangesX == {RangeInclusive(0, 10), RangeInclusive(7, 3)}
RangesY == {RangeInclusive(0, 10), RangeInclusive(-4, 6)}
Deltas == {Vec2(1, -2), Vec2(3, 1)}
Flags == {Vec2b(x, y) : x \in BOOLEAN, y \in BOOLEAN}
\* A zoom is a factor and a center.  The factor components of the model are
\* 1/inv for inv in {1, 2} (1.0 and 0.5, both exact in f32); the record holds
\* inv, so that dividing by the factor is the exact multiplication by inv.
Zooms == {[factor |-> Vec2(2, 1), center |-> PlotPoint(5, 5)]}

\* enum PlotAction<I>
AddItem(i) == [tag |-> "AddItem", item |-> i]
SetBoundsX(r) == [tag |-> "SetBoundsX", range |-> r]
SetBoundsY(r) == [tag |-> "SetBoundsY", range |-> r]
Translate(d) == [tag |-> "Translate", delta |-> d]
SetAutoBounds(v) == [tag |-> "SetAutoBounds", v |-> v]
Zoom(f, c) == [tag |-> "Zoom", factor |-> f, center |-> c]
AddOverlayShape(s) == [tag |-> "AddOverlayShape", shape |-> s]

PlotAction ==
    {AddItem(i) : i \in Items}
    \cup {SetBoundsX(r) : r \in RangesX}
    \cup {SetBoundsY(r) : r \in RangesY}
    \cup {Translate(d) : d \in Deltas}
    \cup {SetAutoBounds(v) : v \in Flags}
    \cup {Zoom(z.factor, z.center) : z \in Zooms}
    \cup {AddOverlayShape(s) : s \in Shapes}

\* the actions the builder submits in the frames of SpecFrames: one of each
\* kind that writes a field of the result
FrameActions ==
    {AddItem("i1"), SetBoundsX(RangeInclusive(0, 10)), Translate(Vec2(1, -2)),
     SetAutoBounds(Vec2b(TRUE, TRUE)), AddOverlayShape("s1")}

\* the bounds the host holds when the first frame starts
InitBounds == {PlotBounds(<<0, 0>>, <<10, 10>>)}

\* the values of the two unused arguments of apply
LastTransforms == {None, Some("unit")}
Responses == {None, Some("response")}

(***************************************************************************)
(* impl BoundsLike for PlotBounds                                          *)
(***************************************************************************)
\* a bug: the end of the range is taken as an extent from the old minimum
set_x_range_EndFromOldMin(b, range) ==
    PlotBounds(<<range.start, b.min[2]>>, <<b.min[1] + range.end, b.max[2]>>)

set_x_range(b, range) ==
    PlotBounds(<<range.start, b.min[2]>>, <<range.end, b.max[2]>>)

\* a bug: the range is written to the x axis, as set_x_range does
set_y_range_WritesX(b, range) ==
    PlotBounds(<<range.start, b.min[2]>>, <<range.end, b.max[2]>>)

\* a bug: the end of the range is stored as min and its start as max
set_y_range_Reversed(b, range) ==
    PlotBounds(<<b.min[1], range.end>>, <<b.max[1], range.start>>)

set_y_range(b, range) ==
    PlotBounds(<<b.min[1], range.start>>, <<b.max[1], range.end>>)

\* PlotBounds::translate: both corners move by the delta.
translate(b, dx, dy) ==
    PlotBounds(<<b.min[1] + dx, b.min[2] + dy>>, <<b.max[1] + dx, b.max[2] + dy>>)

\* PlotBounds::zoom: the extent of each axis is divided by the factor
\* around the center, which stays fixed.
zoom(b, factor, center) ==
    PlotBounds(
        <<center.x + (b.min[1] - center.x) * factor.x,
          center.y + (b.min[2] - center.y) * factor.y>>,
        <<center.x + (b.max[1] - center.x) * factor.x,
          center.y + (b.max[2] - center.y) * factor.y>>)

(***************************************************************************)
(* PlotAction::as_event                                                    *)
(***************************************************************************)
BoundsChanged(old, new, cause) ==
    [tag |-> "BoundsChanged", old |-> old, new |-> new, cause |-> cause]

\* a bug: the event of SetBoundsY is a copy of the event of SetBoundsX
as_event_YLikeX(action) ==
    CASE action.tag \in {"SetBoundsX", "SetBoundsY"} ->
            Some(BoundsChanged(
                NOTHING,
                PlotBounds(<<action.range.start, NEG_INFINITY>>,
                           <<action.range.end, INFINITY>>),
                "Programmatic"))
      [] action.tag \in {"Translate", "Zoom", "SetAutoBounds",
                         "AddOverlayShape", "AddItem"} -> None

\* a bug: no action is echoed as an event, the log is returned empty
as_event_Silent(action) == None

\* a bug: a Translate is reported as a pan
as_event_ReportsTranslate(action) ==
    CASE action.tag = "SetBoundsX" ->
            Some(BoundsChanged(
                NOTHING,
                PlotBounds(<<action.range.start, NEG_INFINITY>>,
                           <<action.range.end, INFINITY>>),
                "Programmatic"))
      [] action.tag = "SetBoundsY" ->
            Some(BoundsChanged(
                NOTHING,
                PlotBounds(<<NEG_INFINITY, action.range.start>>,
                           <<INFINITY, action.range.end>>),
                "Programmatic"))
      [] action.tag = "Translate" ->
            Some(BoundsChanged(NOTHING, NOTHING, "Pan"))
      [] action.tag \in {"Zoom", "SetAutoBounds",
                         "AddOverlayShape", "AddItem"} -> None

as_event(action) ==
    CASE action.tag = "SetBoundsX" ->
            Some(BoundsChanged(
                NOTHING,
                PlotBounds(<<action.range.start, NEG_INFINITY>>,
                           <<action.range.end, INFINITY>>),
                "Programmatic"))
      [] action.tag = "SetBoundsY" ->
            Some(BoundsChanged(
                NOTHING,
                PlotBounds(<<NEG_INFINITY, action.range.start>>,
                           <<INFINITY, action.range.end>>),
                "Programmatic"))
      [] action.tag \in {"Translate", "Zoom", "SetAutoBounds",
                         "AddOverlayShape", "AddItem"} -> None

(***************************************************************************)
(* ActionExecutor::apply                                                   *)
(***************************************************************************)
\* struct AppliedActions<I, B>
AppliedActions(items, ab, b, overlays, events) ==
    [items |-> items, auto_bounds |-> ab, bounds |-> b,
     overlays |-> overlays, events |-> events]

\* ActionQueue::drain: the actions, moved out in order.
drain(q) == [k \in 1..Len(q) |-> q[k]]

\* The arms of the match of apply; st holds the locals items, overlays,
\* events, bounds and auto_bounds of the call.

\* a bug: the item is put in front of the items
AddItemArm_Prepend(st, item) ==
    [st EXCEPT !.items = <<item>> \o st.items]

\* a bug: adding an item turns auto-bounds on
AddItemArm_EnablesAuto(st, item) ==
    [st EXCEPT !.items = Append(st.items, item),
               !.auto_bounds = Vec2b(TRUE, TRUE)]

AddItemArm(st, item) ==
    [st EXCEPT !.items = Append(st.items, item)]

\* a bug: both flags are cleared, as Translate does
SetBoundsXArm_BothAxes(st, range) ==
    [st EXCEPT !.bounds = set_x_range(st.bounds, range),
               !.auto_bounds = Vec2b(FALSE, FALSE)]

SetBoundsXArm(st, range) ==
    [st EXCEPT !.bounds = set_x_range(st.bounds, range),
               !.auto_bounds = [st.auto_bounds EXCEPT !.x = FALSE]]

\* a bug: the flag is left as it is
SetBoundsYArm_KeepsFlag(st, range) ==
    [st EXCEPT !.bounds = set_y_range(st.bounds, range)]

SetBoundsYArm(st, range) ==
    [st EXCEPT !.bounds = set_y_range(st.bounds, range),
               !.auto_bounds = [st.auto_bounds EXCEPT !.y = FALSE]]

\* a bug: the flags are left as they are
TranslateArm_KeepsFlags(st, delta) ==
    [st EXCEPT !.bounds = translate(st.bounds, F32ToF64(delta.x), F32ToF64(delta.y))]

\* a bug: the components of the delta are exchanged
TranslateArm_SwapsAxes(st, delta) ==
    [st EXCEPT !.bounds = translate(st.bounds, F32ToF64(delta.y), F32ToF64(delta.x)),
               !.auto_bounds = Vec2b(FALSE, FALSE)]

TranslateArm(st, delta) ==
    [st EXCEPT !.bounds = translate(st.bounds, F32ToF64(delta.x), F32ToF64(delta.y)),
               !.auto_bounds = Vec2b(FALSE, FALSE)]

\* a bug: a flag that is off stays off
SetAutoBoundsArm_Sticky(st, v) ==
    [st EXCEPT !.auto_bounds = Vec2b(st.auto_bounds.x /\ v.x, st.auto_bounds.y /\ v.y)]

\* a bug: turning a flag on resets the bounds, for a fit to the content
SetAutoBoundsArm_Refits(st, v) ==
    [st EXCEPT !.auto_bounds = v,
               !.bounds = IF v.x \/ v.y THEN NOTHING ELSE st.bounds]

SetAutoBoundsArm(st, v) ==
    [st EXCEPT !.auto_bounds = v]

\* a bug: zooming leaves the flags as they are
ZoomArm_KeepsFlags(st, factor, center) ==
    [st EXCEPT !.bounds = zoom(st.bounds, factor, center)]

ZoomArm(st, factor, center) ==
    [st EXCEPT !.bounds = zoom(st.bounds, factor, center),
               !.auto_bounds = Vec2b(FALSE, FALSE)]

\* a bug: the shape is pushed to the items
AddOverlayShapeArm_IntoItems(st, shape) ==
    [st EXCEPT !.items = Append(st.items, shape)]

AddOverlayShapeArm(st, shape) ==
    [st EXCEPT !.overlays = Append(st.overlays, shape)]

\* The body of the loop of apply for one action: the event of the action,
\* if it has one, is pushed, and then the action is matched.
apply_action(st, action) ==
    LET ev == as_event(action)
        st1 == IF ev # None
               THEN [st EXCEPT !.events = Append(st.events, ev[1])]
               ELSE st
    IN  CASE action.tag = "AddItem" -> AddItemArm(st1, action.item)
          [] action.tag = "SetBoundsX" -> SetBoundsXArm(st1, action.range)
          [] action.tag = "SetBoundsY" -> SetBoundsYArm(st1, action.range)
          [] action.tag = "Translate" -> TranslateArm(st1, action.delta)
          [] action.tag = "SetAutoBounds" -> SetAutoBoundsArm(st1, action.v)
          [] action.tag = "Zoom" -> ZoomArm(st1, action.factor, action.center)
          [] action.tag = "AddOverlayShape" -> AddOverlayShapeArm(st1, action.shape)

\* a bug: the loop stops one action early
RECURSIVE apply_loop_SkipsLast(_, _)
apply_loop_SkipsLast(st, acts) ==
    IF Len(acts) <= 1 THEN st
    ELSE apply_loop_SkipsLast(apply_action(st, Head(acts)), Tail(acts))

\* `for action in queue.drain() { ... }`
RECURSIVE apply_loop(_, _)
apply_loop(st, acts) ==
    IF acts = <<>> THEN st
    ELSE apply_loop(apply_action(st, Head(acts)), Tail(acts))

\* a bug: a frame that has a last transform keeps no auto-bounds
apply_UsesLastTransform(q, b, ab, last_transform, response) ==
    apply_loop(AppliedActions(<<>>,
                              IF last_transform = None THEN ab ELSE Vec2b(FALSE, FALSE),
                              b, <<>>, <<>>),
               drain(q))

apply(q, b, ab, last_transform, response) ==
    apply_loop(AppliedActions(<<>>, ab, b, <<>>, <<>>), drain(q))

(***************************************************************************)
(* The frame loop of the host: the builder fills the queue, one call of    *)
(* apply drains and reduces it, and the host threads the resulting bounds  *)
(* and flags into the next frame.                                          *)
(***************************************************************************)
\* a call of apply, as the history `calls` records it
Call(q, b, ab, result) ==
    [queue |-> q, bounds |-> b, auto_bounds |-> ab, result |-> result]

\* no gesture is in progress
Idle == [pan |-> "idle", box_zoom |-> "idle"]

Init ==
    /\ queue = <<>>
    /\ bounds \in InitBounds
    /\ auto_bounds \in Flags
    /\ applied = None
    /\ pc = "build"
    /\ calls = <<>>
    /\ submitted = <<>>
    /\ observed = None
    /\ interval = None
    /\ made_by = None
    /\ plot_item = None
    /\ gesture = Idle
    /\ appended = <<>>
    /\ handed = <<>>
    /\ log = <<>>

\* ActionQueue::push
push(q, action) == Append(q, action)

Push ==
    /\ pc = "build"
    /\ Len(queue) < MaxQueue
    /\ \E action \in PlotAction : queue' = push(queue, action)
    /\ UNCHANGED <<bounds, auto_bounds, applied, pc, calls, submitted, observed>>
    /\ UNCHANGED interval_vars
    /\ UNCHANGED item_vars
    /\ UNCHANGED gesture_vars

\* ActionQueue::push, in the frames of SpecFrames
PushFrame ==
    /\ pc = "build"
    /\ Len(queue) < MaxFrameQueue
    /\ \E action \in FrameActions : queue' = push(queue, action)
    /\ UNCHANGED <<bounds, auto_bounds, applied, pc, calls, submitted, observed>>
    /\ UNCHANGED interval_vars
    /\ UNCHANGED item_vars
    /\ UNCHANGED gesture_vars

\* ActionExecutor::apply(queue, bounds, auto_bounds, _last_transform, _response);
\* the queue is moved into the call.
Apply ==
    /\ pc = "build"
    /\ \E lt \in LastTransforms, resp \in Responses :
          /\ applied' = Some(apply(queue, bounds, auto_bounds, lt, resp))
          /\ calls' = Append(calls, Call(queue, bounds, auto_bounds, applied'[1]))
    /\ queue' = <<>>
    /\ pc' = "applied"
    /\ UNCHANGED <<bounds, auto_bounds, submitted, observed>>
    /\ UNCHANGED interval_vars
    /\ UNCHANGED item_vars
    /\ UNCHANGED gesture_vars

\* The host takes the result and starts the next frame with a new queue.
NextFrame ==
    /\ pc = "applied"
    /\ Len(calls) < MaxFrames
    /\ bounds' = applied[1].bounds
    /\ auto_bounds' = applied[1].auto_bounds
    /\ applied' = None
    /\ queue' = <<>>
    /\ pc' = "build"
    /\ UNCHANGED <<calls, submitted, observed>>
    /\ UNCHANGED interval_vars
    /\ UNCHANGED item_vars
    /\ UNCHANGED gesture_vars

\* One frame: the queue is built and applied.
Next == Push \/ Apply

Spec == Init /\ [][Next]_vars

\* Several frames, each with its own queue, the bounds and flags threaded
\* from one to the next.
NextFrames == PushFrame \/ Apply \/ NextFrame

SpecFrames == Init /\ [][NextFrames]_vars

(***************************************************************************)
(* impl ActionQueue: the builder fills a queue through push, extend and    *)
(* the convenience calls, asks it for its length and its contents, and     *)
(* drains it once.                                                         *)
(***************************************************************************)

\* a bug: the batch is put at the back one action at a time, from its end
extend_Reversed(q, batch) ==
    q \o [k \in 1..Len(batch) |-> batch[Len(batch) + 1 - k]]

\* ActionQueue::extend
extend(q, batch) == q \o batch

\* ActionQueue::len, ActionQueue::is_empty
len(q) == Len(q)
is_empty(q) == q = <<>>

\* ActionQueue::add_item .. set_auto_bounds, ActionQueue::zoom
add_item(q, item) == push(q, AddItem(item))
set_bounds_x(q, r) == push(q, SetBoundsX(r))
set_bounds_y(q, r) == push(q, SetBoundsY(r))
queue_translate(q, delta) == push(q, Translate(delta))
set_auto_bounds(q, v) == push(q, SetAutoBounds(v))
queue_zoom(q, zoom_factor, center) == push(q, Zoom(zoom_factor, center))

\* ActionQueue::iter
iter(q) == q

\* a bug: the filter matches the wrong variant
iter_items_WrongVariant(q) ==
    LET sel == SelectSeq(q, LAMBDA act : act.tag = "AddOverlayShape")
    IN  [k \in 1..Len(sel) |-> sel[k].shape]

\* ActionQueue::iter_items, ActionQueue::iter_items_mut: the items of the
\* AddItem actions
iter_items(q) ==
    LET sel == SelectSeq(q, LAMBDA act : act.tag = "AddItem")
    IN  [k \in 1..Len(sel) |-> sel[k].item]

\* the batches the builder hands to extend
Batches ==
    {<<>>,
     <<AddOverlayShape("s1")>>,
     <<AddItem("i1"), Translate(Vec2(1, -2))>>,
     <<SetBoundsX(RangeInclusive(7, 3)), AddItem("i2")>>}

\* the value a query returned
Observed(op, value) == Some([op |-> op, value |-> value])

\* a call that changes the queue: it returns nothing
Submit(q, actions) ==
    /\ pc = "build"
    /\ Len(queue) + Len(actions) <= MaxQueueLen
    /\ queue' = q
    /\ submitted' = submitted \o actions
    /\ observed' = None
    /\ UNCHANGED <<bounds, auto_bounds, applied, pc, calls>>
    /\ UNCHANGED interval_vars
    /\ UNCHANGED item_vars
    /\ UNCHANGED gesture_vars

\* a call that reads the queue through &self
Query(op, value) ==
    /\ pc = "build"
    /\ observed' = Observed(op, value)
    /\ UNCHANGED <<queue, bounds, auto_bounds, applied, pc, calls, submitted>>
    /\ UNCHANGED interval_vars
    /\ UNCHANGED item_vars
    /\ UNCHANGED gesture_vars

\* the actions the builder submits in SpecQueue: one of each variant, and
\* two items
QueueActions ==
    {AddItem("i1"), AddItem("i2"), SetBoundsX(RangeInclusive(7, 3)),
     SetBoundsY(RangeInclusive(-4, 6)), Translate(Vec2(1, -2)),
     SetAutoBounds(Vec2b(TRUE, FALSE)), Zoom(Vec2(2, 1), PlotPoint(5, 5)),
     AddOverlayShape("s1")}

\* the state before the first call: an empty queue, no interval made, no item
\* constructed, nothing observed
InitQueue ==
    /\ queue = <<>>
    /\ bounds \in InitBounds
    /\ auto_bounds = Vec2b(TRUE, TRUE)
    /\ applied = None
    /\ pc = "build"
    /\ calls = <<>>
    /\ submitted = <<>>
    /\ observed = None
    /\ interval = None
    /\ made_by = None
    /\ plot_item = None
    /\ gesture = Idle
    /\ appended = <<>>
    /\ handed = <<>>
    /\ log = <<>>

NextQueue ==
    \/ \E a \in QueueActions : Submit(push(queue, a), <<a>>)
    \/ \E batch \in Batches : Submit(extend(queue, batch), batch)
    \/ \E a \in QueueActions :
           a.tag = "AddItem" /\ Submit(add_item(queue, a.item), <<a>>)
    \/ \E a \in QueueActions :
           a.tag = "SetBoundsX" /\ Submit(set_bounds_x(queue, a.range), <<a>>)
    \/ \E a \in QueueActions :
           a.tag = "SetBoundsY" /\ Submit(set_bounds_y(queue, a.range), <<a>>)
    \/ \E a \in QueueActions :
           a.tag = "Translate" /\ Submit(queue_translate(queue, a.delta), <<a>>)
    \/ \E a \in QueueActions :
           a.tag = "SetAutoBounds" /\ Submit(set_auto_bounds(queue, a.v), <<a>>)
    \/ \E a \in QueueActions :
           a.tag = "Zoom" /\ Submit(queue_zoom(queue, a.factor, a.center), <<a>>)
    \/ Query("len", len(queue))
    \/ Query("is_empty", is_empty(queue))
    \/ Query("iter", iter(queue))
    \/ Query("iter_items", iter_items(queue))
    \* ActionQueue::drain: the queue is consumed
    \/ /\ pc = "build"
       /\ observed' = Observed("drain", drain(queue))
       /\ queue' = <<>>
       /\ pc' = "drained"
       /\ UNCHANGED <<bounds, auto_bounds, applied, calls, submitted>>
       /\ UNCHANGED interval_vars
       /\ UNCHANGED item_vars
       /\ UNCHANGED gesture_vars

SpecQueue == InitQueue /\ [][NextQueue]_vars

(***************************************************************************)
(* The interval algebra (bound.rs)                                         *)
(***************************************************************************)
\* enum Bound { NegInf, Finite(f64, EndKind), PosInf }; EndKind is "Open"
\* or "Closed"
NegInf == [kind |-> "NegInf"]
PosInf == [kind |-> "PosInf"]
Finite(v, k) == [v |-> v, end |-> k, kind |-> "Finite"]

\* Bound::closed, Bound::open
Bound_closed(v) == Finite(v, "Closed")
Bound_open(v) == Finite(v, "Open")

\* a bug: at equal value a closed bound is put below an open bound
cmp_key_ClosedBelowOpen(b) ==
    CASE b.kind = "NegInf" -> <<-1, NEG_INFINITY, 0>>
      [] b.kind = "Finite" /\ b.end = "Open" -> <<0, b.v, 1>>
      [] b.kind = "Finite" /\ b.end = "Closed" -> <<0, b.v, 0>>
      [] b.kind = "PosInf" -> <<1, INFINITY, 0>>

\* Bound::cmp_key
cmp_key(b) ==
    CASE b.kind = "NegInf" -> <<-1, NEG_INFINITY, 0>>
      [] b.kind = "Finite" /\ b.end = "Open" -> <<0, b.v, 0>>
      [] b.kind = "Finite" /\ b.end = "Closed" -> <<0, b.v, 1>>
      [] b.kind = "PosInf" -> <<1, INFINITY, 0>>

\* the comparisons of (i8, f64, i8): lexicographic, the f64 compared as f64
key_gt(k, l) ==
    \/ k[1] > l[1]
    \/ k[1] = l[1] /\ f64_gt(k[2], l[2])
    \/ k[1] = l[1] /\ k[2] = l[2] /\ k[2] # NAN /\ k[3] > l[3]
key_ge(k, l) == key_gt(k, l) \/ (k[1] = l[1] /\ k[2] = l[2] /\ k[2] # NAN /\ k[3] = l[3])
key_le(k, l) == key_ge(l, k)

\* struct Interval { start, end }
Interval(start, end) == [start |-> start, end |-> end]

\* Interval::normalize
normalize(iv) ==
    IF key_gt(cmp_key(iv.start), cmp_key(iv.end))
    THEN Interval(iv.end, iv.start)
    ELSE iv

\* Interval::new and the constructors
Interval_new(start, end) == normalize(Interval(start, end))
Interval_closed(a, b) == Interval_new(Bound_closed(a), Bound_closed(b))
Interval_open(a, b) == Interval_new(Bound_open(a), Bound_open(b))
Interval_open_closed(a, b) == Interval_new(Bound_open(a), Bound_closed(b))
Interval_closed_open(a, b) == Interval_new(Bound_closed(a), Bound_open(b))
Interval_below(b, kind) == Interval_new(NegInf, Finite(b, kind))
Interval_above(a, kind) == Interval_new(Finite(a, kind), PosInf)
Interval_all == Interval_new(NegInf, PosInf)

\* a bug: the ends given as Some(v) are open
Interval_from_OpenEnds(lo, hi) ==
    LET start == IF lo = None THEN NegInf ELSE Bound_open(lo[1])
        end == IF hi = None THEN PosInf ELSE Bound_open(hi[1])
    IN  Interval_new(start, end)

\* impl From<(Option<f64>, Option<f64>)> for Interval
Interval_from(lo, hi) ==
    LET start == IF lo = None THEN NegInf ELSE Bound_closed(lo[1])
        end == IF hi = None THEN PosInf ELSE Bound_closed(hi[1])
    IN  Interval_new(start, end)

\* a bug: a closed end does not contain its value
contains_EndExclusive(iv, x) ==
    IF ~is_finite(x) THEN FALSE
    ELSE LET left_ok ==
                CASE iv.start.kind = "NegInf" -> TRUE
                  [] iv.start.kind = "Finite" /\ iv.start.end = "Closed" -> f64_ge(x, iv.start.v)
                  [] iv.start.kind = "Finite" /\ iv.start.end = "Open" -> f64_gt(x, iv.start.v)
                  [] iv.start.kind = "PosInf" -> FALSE
             right_ok ==
                CASE iv.end.kind = "PosInf" -> TRUE
                  [] iv.end.kind = "Finite" -> f64_lt(x, iv.end.v)
                  [] iv.end.kind = "NegInf" -> FALSE
         IN  left_ok /\ right_ok

\* a bug: the probe is not checked to be finite
contains_NoFiniteCheck(iv, x) ==
    LET left_ok ==
            CASE iv.start.kind = "NegInf" -> TRUE
              [] iv.start.kind = "Finite" /\ iv.start.end = "Closed" -> f64_ge(x, iv.start.v)
              [] iv.start.kind = "Finite" /\ iv.start.end = "Open" -> f64_gt(x, iv.start.v)
              [] iv.start.kind = "PosInf" -> FALSE
        right_ok ==
            CASE iv.end.kind = "PosInf" -> TRUE
              [] iv.end.kind = "Finite" /\ iv.end.end = "Closed" -> f64_le(x, iv.end.v)
              [] iv.end.kind = "Finite" /\ iv.end.end = "Open" -> f64_lt(x, iv.end.v)
              [] iv.end.kind = "NegInf" -> FALSE
    IN  left_ok /\ right_ok

\* Interval::contains
contains(iv, x) ==
    IF ~is_finite(x) THEN FALSE
    ELSE LET left_ok ==
                CASE iv.start.kind = "NegInf" -> TRUE
                  [] iv.start.kind = "Finite" /\ iv.start.end = "Closed" -> f64_ge(x, iv.start.v)
                  [] iv.start.kind = "Finite" /\ iv.start.end = "Open" -> f64_gt(x, iv.start.v)
                  [] iv.start.kind = "PosInf" -> FALSE
             right_ok ==
                CASE iv.end.kind = "PosInf" -> TRUE
                  [] iv.end.kind = "Finite" /\ iv.end.end = "Closed" -> f64_le(x, iv.end.v)
                  [] iv.end.kind = "Finite" /\ iv.end.end = "Open" -> f64_lt(x, iv.end.v)
                  [] iv.end.kind = "NegInf" -> FALSE
         IN  left_ok /\ right_ok

\* a bug: at a == b the interval is empty only if both ends are open
Interval_is_empty_BothOpen(iv) ==
    CASE iv.start.kind = "Finite" /\ iv.end.kind = "Finite" ->
            IF f64_lt(iv.start.v, iv.end.v) THEN FALSE
            ELSE IF f64_gt(iv.start.v, iv.end.v) THEN TRUE
            ELSE iv.start.end = "Open" /\ iv.end.end = "Open"
      [] OTHER -> iv.start.kind = "PosInf" \/ iv.end.kind = "NegInf"

\* Interval::is_empty
Interval_is_empty(iv) ==
    CASE iv.start.kind = "Finite" /\ iv.end.kind = "Finite" ->
            IF f64_lt(iv.start.v, iv.end.v) THEN FALSE
            ELSE IF f64_gt(iv.start.v, iv.end.v) THEN TRUE
            ELSE iv.start.end = "Open" \/ iv.end.end = "Open"
      [] OTHER -> iv.start.kind = "PosInf" \/ iv.end.kind = "NegInf"

\* the ordering key as a pair of bounds compares: >= and <=
bound_ge(a, b) == key_ge(cmp_key(a), cmp_key(b))
bound_le(a, b) == key_le(cmp_key(a), cmp_key(b))

\* a bug: an interval of one point, closed at both ends, counts as empty
intersect_DropsPoint(self, other) ==
    LET s == normalize(self)
        o == normalize(other)
        start == IF bound_ge(s.start, o.start) THEN s.start ELSE o.start
        end == IF bound_le(s.end, o.end) THEN s.end ELSE o.end
        out == Interval(start, end)
    IN  IF Interval_is_empty(out) \/ bound_ge(out.start, out.end) THEN None ELSE Some(out)

\* a bug: the other operand is not normalized
intersect_OtherAsGiven(self, other) ==
    LET s == normalize(self)
        o == other
        start == IF bound_ge(s.start, o.start) THEN s.start ELSE o.start
        end == IF bound_le(s.end, o.end) THEN s.end ELSE o.end
        out == Interval(start, end)
    IN  IF Interval_is_empty(out) THEN None ELSE Some(out)

\* a bug: the starts are compared by value only, and the start of self is
\* kept when the two values are equal
intersect_SelfStartOnTie(self, other) ==
    LET s == normalize(self)
        o == normalize(other)
        by_value(b) == <<cmp_key(b)[1], cmp_key(b)[2], 0>>
        start == IF key_ge(by_value(s.start), by_value(o.start)) THEN s.start ELSE o.start
        end == IF bound_le(s.end, o.end) THEN s.end ELSE o.end
        out == Interval(start, end)
    IN  IF Interval_is_empty(out) THEN None ELSE Some(out)

\* Interval::intersect
intersect(self, other) ==
    LET s == normalize(self)
        o == normalize(other)
        start == IF bound_ge(s.start, o.start) THEN s.start ELSE o.start
        end == IF bound_le(s.end, o.end) THEN s.end ELSE o.end
        out == Interval(start, end)
    IN  IF Interval_is_empty(out) THEN None ELSE Some(out)

\* the inputs: finite values, the bounds over them, and the probes of
\* contains, finite (also outside the values) and not finite
Values == 0..MaxValue
EndKinds == {"Open", "Closed"}
Bounds == {NegInf, PosInf} \cup {Finite(v, k) : v \in Values, k \in EndKinds}
OptionValues == {None} \cup {Some(v) : v \in Values}
FiniteProbes == (-1)..(MaxValue + 1)
NonFiniteProbes == {NAN, INFINITY, NEG_INFINITY}
\* every pair of bounds, as a struct with public fields can hold it
Intervals == {Interval(s, e) : s \in Bounds, e \in Bounds}

\* the call that made the interval
MadeBy(op, args) == Some([op |-> op, args |-> args])

\* a call that returns an Interval
Make(iv, op, args) ==
    /\ interval' = Some(iv)
    /\ made_by' = MadeBy(op, args)
    /\ observed' = None
    /\ UNCHANGED <<queue, bounds, auto_bounds, applied, pc, calls, submitted>>
    /\ UNCHANGED item_vars
    /\ UNCHANGED gesture_vars

\* a call that reads the interval through &self
Ask(op, x, value) ==
    /\ interval # None
    /\ observed' = Observed(op, [x |-> x, value |-> value])
    /\ UNCHANGED <<queue, bounds, auto_bounds, applied, pc, calls, submitted>>
    /\ UNCHANGED interval_vars
    /\ UNCHANGED item_vars
    /\ UNCHANGED gesture_vars

NextInterval ==
    \* `Interval { start, end }`: the fields are public
    \/ \E s \in Bounds, e \in Bounds : Make(Interval(s, e), "literal", <<s, e>>)
    \/ \E s \in Bounds, e \in Bounds : Make(Interval_new(s, e), "new", <<s, e>>)
    \/ \E a \in Values, b \in Values : Make(Interval_closed(a, b), "closed", <<a, b>>)
    \/ \E a \in Values, b \in Values : Make(Interval_open(a, b), "open", <<a, b>>)
    \/ \E a \in Values, b \in Values : Make(Interval_open_closed(a, b), "open_closed", <<a, b>>)
    \/ \E a \in Values, b \in Values : Make(Interval_closed_open(a, b), "closed_open", <<a, b>>)
    \/ \E b \in Values, k \in EndKinds : Make(Interval_below(b, k), "below", <<b, k>>)
    \/ \E a \in Values, k \in EndKinds : Make(Interval_above(a, k), "above", <<a, k>>)
    \/ Make(Interval_all, "all", <<>>)
    \/ \E lo \in OptionValues, hi \in OptionValues :
           Make(Interval_from(lo, hi), "from", <<lo, hi>>)
    \/ /\ interval # None
       /\ Make(normalize(interval[1]), "normalize", <<interval[1]>>)
    \/ \E x \in FiniteProbes \cup NonFiniteProbes :
           Ask("contains", x, contains(interval[1], x))
    \/ Ask("is_empty", None, Interval_is_empty(interval[1]))
    \/ \E other \in Intervals :
           Ask("intersect", other, intersect(interval[1], other))

SpecInterval == InitQueue /\ [][NextInterval]_vars

(***************************************************************************)
(* Projection to screen space (bound.rs, span_utils.rs) and the span items *)
(* (span.rs)                                                               *)
(***************************************************************************)
\* the plot frame, a screen rectangle: x grows to the right and y grows
\* downwards, so left < right and top < bottom
Frame == [left |-> 10, right |-> 60, top |-> 5, bottom |-> 55]

\* PlotTransform: the frame and an affine map of each data axis onto it; an
\* axis may be inverted
PlotTransform(invert) == [frame |-> Frame, origin |-> -1, scale |-> 10, invert |-> invert]
Transforms == {PlotTransform(Vec2b(ix, iy)) : ix \in BOOLEAN, iy \in BOOLEAN}

\* PlotTransform::position_from_point, per coordinate: data x grows to the
\* right and data y grows upwards unless the axis is inverted
position_x(tf, x) ==
    IF tf.invert.x
    THEN tf.frame.right - (x - tf.origin) * tf.scale
    ELSE tf.frame.left + (x - tf.origin) * tf.scale
position_y(tf, y) ==
    IF tf.invert.y
    THEN tf.frame.top + (y - tf.origin) * tf.scale
    ELSE tf.frame.bottom - (y - tf.origin) * tf.scale

\* f32::min, f32::max (no NaN reaches them)
f32_min(a, b) == IF a <= b THEN a ELSE b
f32_max(a, b) == IF a >= b THEN a ELSE b

\* a bug: the pair is returned in the order of the ends, not re-ordered
to_screen_y_AsProjected(self, tf) ==
    LET y0 == CASE self.start.kind = "NegInf" -> tf.frame.bottom
                [] self.start.kind = "Finite" -> position_y(tf, self.start.v)
                [] self.start.kind = "PosInf" -> tf.frame.top
        y1 == CASE self.end.kind = "PosInf" -> tf.frame.top
                [] self.end.kind = "Finite" -> position_y(tf, self.end.v)
                [] self.end.kind = "NegInf" -> tf.frame.bottom
    IN  <<y0, y1>>

\* Interval::to_screen_y
to_screen_y(self, tf) ==
    LET y0 == CASE self.start.kind = "NegInf" -> tf.frame.bottom
                [] self.start.kind = "Finite" -> position_y(tf, self.start.v)
                [] self.start.kind = "PosInf" -> tf.frame.top
        y1 == CASE self.end.kind = "PosInf" -> tf.frame.top
                [] self.end.kind = "Finite" -> position_y(tf, self.end.v)
                [] self.end.kind = "NegInf" -> tf.frame.bottom
    IN  <<f32_min(y0, y1), f32_max(y0, y1)>>

\* Interval::to_screen_x
to_screen_x(self, tf) ==
    LET x0 == CASE self.start.kind = "NegInf" -> tf.frame.left
                [] self.start.kind = "Finite" -> position_x(tf, self.start.v)
                [] self.start.kind = "PosInf" -> tf.frame.right
        x1 == CASE self.end.kind = "PosInf" -> tf.frame.right
                [] self.end.kind = "Finite" -> position_x(tf, self.end.v)
                [] self.end.kind = "NegInf" -> tf.frame.left
    IN  <<f32_min(x0, x1), f32_max(x0, x1)>>

\* span_utils: the interval is a pair of f64, infinite where unbounded
interval_to_screen_y(iv, tf) ==
    LET y0 == IF is_finite(iv.start) THEN position_y(tf, iv.start) ELSE tf.frame.bottom
        y1 == IF is_finite(iv.end) THEN position_y(tf, iv.end) ELSE tf.frame.top
    IN  <<f32_min(y0, y1), f32_max(y0, y1)>>
interval_to_screen_x(iv, tf) ==
    LET x0 == IF is_finite(iv.start) THEN position_x(tf, iv.start) ELSE tf.frame.left
        x1 == IF is_finite(iv.end) THEN position_x(tf, iv.end) ELSE tf.frame.right
    IN  <<f32_min(x0, x1), f32_max(x0, x1)>>

\* Rect::from_min_max(pos2(..), pos2(..)) and the two shapes of a span
Rect(left, top, right, bottom) == [min |-> <<left, top>>, max |-> <<right, bottom>>]
rect_filled(rect) == [shape |-> "rect_filled", rect |-> rect]
rect_stroke(rect, stroke) == [shape |-> "rect_stroke", rect |-> rect, stroke |-> stroke]

\* (bottom - top).abs() <= f32::EPSILON: two screen positions of the model
\* are equal or at least one apart
collapsed(a, b) == a = b

\* struct HSpan { y_min, y_max, stroke, visible } and VSpan { x_min, x_max,
\* stroke, visible }; the fill colour plays no part
Span(min, max, stroke, visible) ==
    [min |-> min, max |-> max, stroke |-> stroke, visible |-> visible]

\* the closure map_y / map_x of shapes
map_y(tf, y_opt, fallback_edge) ==
    IF y_opt # None /\ is_finite(y_opt[1]) THEN position_y(tf, y_opt[1]) ELSE fallback_edge
map_x(tf, x_opt, fallback_edge) ==
    IF x_opt # None /\ is_finite(x_opt[1]) THEN position_x(tf, x_opt[1]) ELSE fallback_edge

\* HSpan::shapes: the vector `shapes` after the call
HSpan_shapes(self, tf, shapes) ==
    IF ~self.visible THEN shapes
    ELSE LET y0 == map_y(tf, self.min, tf.frame.top)
             y1 == map_y(tf, self.max, tf.frame.bottom)
             top == IF y0 <= y1 THEN y0 ELSE y1
             bottom == IF y0 <= y1 THEN y1 ELSE y0
             rect == Rect(tf.frame.left, top, tf.frame.right, bottom)
         IN  IF collapsed(bottom, top) THEN shapes
             ELSE shapes \o <<rect_filled(rect)>>
                         \o (IF self.stroke # None
                             THEN <<rect_stroke(rect, self.stroke[1])>> ELSE <<>>)

\* VSpan::shapes: the vector `shapes` after the call
VSpan_shapes(self, tf, shapes) ==
    IF ~self.visible THEN shapes
    ELSE LET x0 == map_x(tf, self.min, tf.frame.left)
             x1 == map_x(tf, self.max, tf.frame.right)
             left == IF x0 <= x1 THEN x0 ELSE x1
             right == IF x0 <= x1 THEN x1 ELSE x0
             rect == Rect(left, tf.frame.top, right, tf.frame.bottom)
         IN  IF collapsed(right, left) THEN shapes
             ELSE shapes \o <<rect_filled(rect)>>
                         \o (IF self.stroke # None
                             THEN <<rect_stroke(rect, self.stroke[1])>> ELSE <<>>)

\* the inputs: intervals of span_utils with finite or infinite ends, the ends
\* of a span (absent, finite or infinite), its optional outline, and the
\* vector the shapes are appended to
F64Intervals ==
    {[start |-> a, end |-> b] : a \in Values \cup {NEG_INFINITY, INFINITY},
                         b \in Values \cup {NEG_INFINITY, INFINITY}}
SpanEnds == OptionValues \cup {Some(NEG_INFINITY), Some(INFINITY)}
Spans == {Span(lo, hi, st, vis) : lo \in SpanEnds, hi \in SpanEnds,
                                  st \in {None, Some("outline")}, vis \in BOOLEAN}
ShapeVecs == {<<>>, <<rect_filled(Rect(0, 0, 1, 1))>>}

\* a call of a function that has no state: its arguments and what it
\* returned; a behaviour is one call
Called(op, args, value) ==
    /\ observed = None
    /\ observed' = Observed(op, [args |-> args, value |-> value])
    /\ UNCHANGED <<queue, bounds, auto_bounds, applied, pc, calls, submitted>>
    /\ UNCHANGED interval_vars
    /\ UNCHANGED item_vars
    /\ UNCHANGED gesture_vars

NextSpan ==
    \/ \E iv \in Intervals, tf \in Transforms :
           Called("to_screen_y", <<iv, tf>>, to_screen_y(iv, tf))
    \/ \E iv \in Intervals, tf \in Transforms :
           Called("to_screen_x", <<iv, tf>>, to_screen_x(iv, tf))
    \/ \E iv \in F64Intervals, tf \in Transforms :
           Called("interval_to_screen_y", <<iv, tf>>, interval_to_screen_y(iv, tf))
    \/ \E iv \in F64Intervals, tf \in Transforms :
           Called("interval_to_screen_x", <<iv, tf>>, interval_to_screen_x(iv, tf))
    \/ \E span \in Spans, tf \in Transforms, shapes \in ShapeVecs :
           Called("HSpan::shapes", <<span, tf, shapes>>, HSpan_shapes(span, tf, shapes))
    \/ \E span \in Spans, tf \in Transforms, shapes \in ShapeVecs :
           Called("VSpan::shapes", <<span, tf, shapes>>, VSpan_shapes(span, tf, shapes))

SpecSpan == InitQueue /\ [][NextSpan]_vars

(***************************************************************************)
(* Plot items built from slices (items/columnar_series.rs, items/band.rs)  *)
(***************************************************************************)
\* usize, scaled down to three bits: usize::MAX is above every length and
\* index of the model
USIZE_MAX == 7

\* a bug: the addition wraps around
saturating_add_Wraps(i, n) == (i + n) % (USIZE_MAX + 1)

\* usize::saturating_add
saturating_add(i, n) == IF i + n > USIZE_MAX THEN USIZE_MAX ELSE i + n

\* usize::min
usize_min(a, b) == IF a <= b THEN a ELSE b

\* what a call ends with: a value, or a panic (no value is produced)
Ok(v) == <<v>>
Panic == <<"panic", "panic">>

\* &xs[start..end], which panics when the range is outside the slice
Subslice(xs, start, end) ==
    IF start <= end /\ end <= Len(xs) THEN Ok(SubSeq(xs, start + 1, end)) ELSE Panic

\* struct ColumnarSeries { xs, ys }
ColumnarSeries(xs, ys) == [xs |-> xs, ys |-> ys]

\* a bug: the lengths are not checked
ColumnarSeries_new_Unchecked(xs, ys) == Ok(ColumnarSeries(xs, ys))

\* ColumnarSeries::new
ColumnarSeries_new(xs, ys) ==
    IF Len(xs) = Len(ys) THEN Ok(ColumnarSeries(xs, ys)) ELSE Panic

\* impl From<(&[f64], &[f64])> for ColumnarSeries
ColumnarSeries_from(tup) == ColumnarSeries_new(tup[1], tup[2])

\* a bug: the series keeps the whole of both slices
new_truncating_KeepsAll(xs, ys) == Ok(ColumnarSeries(xs, ys))

\* ColumnarSeries::new_truncating
new_truncating(xs, ys) ==
    LET n == usize_min(Len(xs), Len(ys))
        x == Subslice(xs, 0, n)
        y == Subslice(ys, 0, n)
    IN  IF x = Panic \/ y = Panic THEN Panic ELSE Ok(ColumnarSeries(x[1], y[1]))

\* ColumnarSeries::EMPTY
EMPTY == ColumnarSeries(<<>>, <<>>)

\* ColumnarSeries::len
series_len(self) == Len(self.xs)

\* ColumnarSeries::get; self.xs[index] and self.ys[index] panic out of range
get(self, index) ==
    IF index < series_len(self)
    THEN IF index < Len(self.xs) /\ index < Len(self.ys)
         THEN Ok(Some(<<self.xs[index + 1], self.ys[index + 1]>>))
         ELSE Panic
    ELSE Ok(None)

\* core::ops::Bound<usize>, and a range as its start_bound() and end_bound()
Unbounded == <<"Unbounded">>
Included(i) == <<"Included", i>>
Excluded(i) == <<"Excluded", i>>
Range(start_bound, end_bound) == <<start_bound, end_bound>>

\* ColumnarSeries::slice
slice(self, range) ==
    LET n == series_len(self)
        start == usize_min(CASE range[1][1] = "Unbounded" -> 0
                             [] range[1][1] = "Included" -> range[1][2]
                             [] range[1][1] = "Excluded" -> saturating_add(range[1][2], 1),
                           n)
        end == usize_min(CASE range[2][1] = "Unbounded" -> n
                           [] range[2][1] = "Included" -> saturating_add(range[2][2], 1)
                           [] range[2][1] = "Excluded" -> range[2][2],
                         n)
    IN  IF end <= start THEN Ok(EMPTY)
        ELSE LET x == Subslice(self.xs, start, end)
                 y == Subslice(self.ys, start, end)
             IN  IF x = Panic \/ y = Panic THEN Panic ELSE Ok(ColumnarSeries(x[1], y[1]))

\* struct Band { xs, y_min, y_max }; name and colour play no part
Band(xs, y_min, y_max) == [xs |-> xs, y_min |-> y_min, y_max |-> y_max]

\* Band::with_series
Band_with_series(xs, y_min, y_max) ==
    IF Len(xs) # Len(y_min) THEN Panic
    ELSE IF Len(xs) # Len(y_max) THEN Panic
    ELSE Ok(Band(xs, y_min, y_max))

\* the inputs: slices of 0..MaxLen samples, each sample telling its column
\* and its position; indices up to beyond the longest slice, and usize::MAX;
\* the ends of every range over them
Samples(column, n) == [i \in 1..n |-> 10 * column + i]
SlicesOf(column) == {Samples(column, n) : n \in 0..MaxLen}
Indices == (0..(MaxLen + 1)) \cup {USIZE_MAX}
RangeEnds == {Unbounded} \cup {Included(i) : i \in Indices} \cup {Excluded(i) : i \in Indices}

\* a call that returns a plot item or panics; a panic ends the build
Construct(op, args, result) ==
    /\ pc = "build"
    /\ observed' = Observed(op, [args |-> args, value |-> result])
    /\ IF result = Panic
       THEN pc' = "panicked" /\ UNCHANGED plot_item
       ELSE pc' = pc /\ plot_item' = Some(result[1])
    /\ UNCHANGED <<queue, bounds, auto_bounds, applied, calls, submitted>>
    /\ UNCHANGED interval_vars
    /\ UNCHANGED gesture_vars

CallSeriesNew ==
    \E xs \in SlicesOf(0), ys \in SlicesOf(1) :
        Construct("new", <<xs, ys>>, ColumnarSeries_new(xs, ys))
CallSeriesFrom ==
    \E xs \in SlicesOf(0), ys \in SlicesOf(1) :
        Construct("from", <<xs, ys>>, ColumnarSeries_from(<<xs, ys>>))
CallWithSeries ==
    \E xs \in SlicesOf(0), y_min \in SlicesOf(1), y_max \in SlicesOf(2) :
        Construct("with_series", <<xs, y_min, y_max>>, Band_with_series(xs, y_min, y_max))

\* the API of ColumnarSeries
NextSeries ==
    \/ CallSeriesNew
    \/ CallSeriesFrom
    \/ \E xs \in SlicesOf(0), ys \in SlicesOf(1) :
           Construct("new_truncating", <<xs, ys>>, new_truncating(xs, ys))
    \/ Construct("EMPTY", <<>>, Ok(EMPTY))
    \/ /\ plot_item # None
       /\ \E sb \in RangeEnds, eb \in RangeEnds :
             Construct("slice", <<plot_item[1], Range(sb, eb)>>,
                       slice(plot_item[1], Range(sb, eb)))
    \/ /\ pc = "build"
       /\ plot_item # None
       /\ \E index \in Indices :
             LET result == get(plot_item[1], index)
             IN  /\ observed' = Observed("get", [args |-> <<plot_item[1], index>>,
                                                 value |-> result])
                 /\ pc' = IF result = Panic THEN "panicked" ELSE pc
       /\ UNCHANGED <<queue, bounds, auto_bounds, applied, calls, submitted>>
       /\ UNCHANGED interval_vars
       /\ UNCHANGED item_vars
       /\ UNCHANGED gesture_vars

SpecSeries == InitQueue /\ [][NextSeries]_vars

\* the build phase of a frame: items are constructed and added to the queue,
\* then the queue is reduced
NextItems ==
    \/ CallSeriesNew
    \/ CallSeriesFrom
    \/ CallWithSeries
    \* the item constructed last is added to the plot: an AddItem action carrying
    \* it is queued
    \/ /\ pc = "build"
       /\ plot_item # None
       /\ Len(queue) < MaxItems
       /\ queue' = add_item(queue, plot_item[1])
       /\ UNCHANGED <<bounds, auto_bounds, applied, pc, calls, submitted, observed>>
       /\ UNCHANGED interval_vars
       /\ UNCHANGED item_vars
       /\ UNCHANGED gesture_vars
    \/ Apply

SpecItems == InitQueue /\ [][NextItems]_vars

(***************************************************************************)
(* The events buffer after apply (action.rs) and the interaction pass of   *)
(* the host, which pushes the gesture events of the frame through          *)
(* events_mut and hands the buffer to the consumer with take_events.       *)
(***************************************************************************)
\* enum PlotEvent, the gesture deltas; the input telemetry is left out
PanStarted == [tag |-> "PanStarted"]
PanDelta(dx, dy) == [tag |-> "PanDelta", delta_plot_x |-> dx, delta_plot_y |-> dy]
PanFinished == [tag |-> "PanFinished"]
BoxZoomStarted(p) == [tag |-> "BoxZoomStarted", screen_start |-> p]
BoxZoomFinished(nx, ny) == [tag |-> "BoxZoomFinished", new_x |-> nx, new_y |-> ny]

\* the events the host pushes, as opposed to those apply emits
IsGestureEvent(ev) == ev.tag # "BoundsChanged"

\* a bug: the events are returned last first
take_events_Reversed(self) ==
    [taken |-> [k \in 1..Len(self.events) |-> self.events[Len(self.events) + 1 - k]],
     self |-> [self EXCEPT !.events = <<>>]]

\* a bug: the events are returned and stay in the buffer
take_events_KeepsBuffer(self) ==
    [taken |-> self.events, self |-> self]

\* AppliedActions::take_events: std::mem::take(&mut self.events) returns the
\* buffer and leaves an empty one
take_events(self) ==
    [taken |-> self.events, self |-> [self EXCEPT !.events = <<>>]]

\* a bug: the event is put in front of the buffer
events_mut_Front(self, ev) ==
    [self EXCEPT !.events = <<ev>> \o @]

\* AppliedActions::events_mut, and the push the caller makes through the
\* &mut Vec it returns
events_mut(self, ev) ==
    [self EXCEPT !.events = Append(@, ev)]

\* the host pushes a gesture event of the frame, and the recognition moves on
Emit(ev, next) ==
    /\ pc = "applied"
    /\ Len(SelectSeq(log \o applied[1].events, IsGestureEvent)) < MaxEvents
    /\ applied' = Some(events_mut(applied[1], ev))
    /\ appended' = Append(appended, ev)
    /\ gesture' = next
    /\ observed' = None
    /\ UNCHANGED <<queue, bounds, auto_bounds, pc, calls, submitted, handed, log>>
    /\ UNCHANGED interval_vars
    /\ UNCHANGED item_vars

\* a gesture is abandoned: no event is pushed
Abandon(next) ==
    /\ pc = "applied"
    /\ gesture' = next
    /\ observed' = None
    /\ UNCHANGED <<queue, bounds, auto_bounds, applied, pc, calls, submitted>>
    /\ UNCHANGED <<appended, handed, log>>
    /\ UNCHANGED interval_vars
    /\ UNCHANGED item_vars

\* the interaction pass on the result of apply
Interaction ==
    \* pan: PanStarted, zero or more PanDelta, PanFinished; or abandoned
    \/ gesture.pan # "active" /\ Emit(PanStarted, [gesture EXCEPT !.pan = "active"])
    \/ gesture.pan = "active" /\ Emit(PanDelta(1, -2), gesture)
    \/ gesture.pan = "active" /\ Emit(PanFinished, [gesture EXCEPT !.pan = "finished"])
    \/ gesture.pan = "active" /\ Abandon([gesture EXCEPT !.pan = "abandoned"])
    \* box zoom: BoxZoomStarted, then one BoxZoomFinished; or abandoned
    \/ gesture.box_zoom # "active"
          /\ Emit(BoxZoomStarted(<<20, 30>>), [gesture EXCEPT !.box_zoom = "active"])
    \/ gesture.box_zoom = "active"
          /\ Emit(BoxZoomFinished(RangeInclusive(0, 10), RangeInclusive(-4, 6)),
                  [gesture EXCEPT !.box_zoom = "finished"])
    \/ gesture.box_zoom = "active" /\ Abandon([gesture EXCEPT !.box_zoom = "abandoned"])
    \* the host hands the buffer to the consumer
    \/ /\ pc = "applied"
       /\ LET r == take_events(applied[1])
          IN  /\ applied' = Some(r.self)
              /\ observed' = Observed("take_events",
                                      [events |-> r.taken, follows_take |-> observed # None])
              /\ handed' = handed \o r.taken
              /\ log' = log \o r.taken
       /\ UNCHANGED <<queue, bounds, auto_bounds, pc, calls, submitted, gesture, appended>>
       /\ UNCHANGED interval_vars
       /\ UNCHANGED item_vars

\* One frame: a queue of actions with and without an event is applied, and
\* the interaction pass follows.
NextEvents ==
    \/ /\ pc = "build"
       /\ Len(queue) < MaxEventQueue
       /\ \E action \in {SetBoundsX(RangeInclusive(0, 10)), SetBoundsY(RangeInclusive(-4, 6)),
                         Translate(Vec2(1, -2))} : queue' = push(queue, action)
       /\ UNCHANGED <<bounds, auto_bounds, applied, pc, calls, submitted, observed>>
       /\ UNCHANGED interval_vars
       /\ UNCHANGED item_vars
       /\ UNCHANGED gesture_vars
    \/ Apply
    \/ Interaction

SpecEvents == InitQueue /\ [][NextEvents]_vars

\* Frames with an empty queue: gestures go on from one frame to the next.
NextGesture ==
    \/ Apply
    \/ Interaction
    \* the frame ends once its events are handed over; the next one starts
    \* from the bounds and flags of the result
    \/ /\ pc = "applied"
       /\ applied[1].events = <<>>
       /\ Len(calls) < MaxFrames
       /\ bounds' = applied[1].bounds
       /\ auto_bounds' = applied[1].auto_bounds
       /\ applied' = None
       /\ queue' = <<>>
       /\ pc' = "build"
       /\ observed' = None
       /\ appended' = <<>>
       /\ handed' = <<>>
       /\ UNCHANGED <<calls, submitted, gesture, log>>
       /\ UNCHANGED interval_vars
       /\ UNCHANGED item_vars

SpecGesture == InitQueue /\ [][NextGesture]_vars

(***************************************************************************)
(* Properties of ActionExecutor::apply.  They are stated about the call    *)
(* that has just returned: its queue, input bounds and input flags are the *)
(* last entry of `calls` and its result is `applied`.                      *)
(***************************************************************************)
Returned == pc = "applied"
LastCall == calls[Len(calls)]
Result == applied[1]

\* the running state of the loop of the last call after its first k actions
After(k) ==
    apply(SubSeq(LastCall.queue, 1, k), LastCall.bounds, LastCall.auto_bounds,
          None, None)

IsAddItem(a) == a.tag = "AddItem"
IsAddOverlayShape(a) == a.tag = "AddOverlayShape"
IsSetBounds(a) == a.tag \in {"SetBoundsX", "SetBoundsY"}
IsBoundsAffecting(a) ==
    a.tag \in {"SetBoundsX", "SetBoundsY", "Translate", "SetAutoBounds", "Zoom"}

\* the payloads of the AddItem actions of q, in the order of q
ItemsOf(q) ==
    LET sel == SelectSeq(q, IsAddItem) IN [k \in 1..Len(sel) |-> sel[k].item]
\* the payloads of the AddOverlayShape actions of q, in the order of q
ShapesOf(q) ==
    LET sel == SelectSeq(q, IsAddOverlayShape) IN [k \in 1..Len(sel) |-> sel[k].shape]

\* C1: apply returns as items the payloads of the AddItem actions of the
\* queue in insertion order, and as overlays the payloads of its
\* AddOverlayShape actions in insertion order: nothing is dropped,
\* duplicated or reordered.
C1_ItemsAndOverlaysInOrder ==
    Returned =>
        /\ Result.items = ItemsOf(LastCall.queue)
        /\ Result.overlays = ShapesOf(LastCall.queue)

\* two distinct items around another action, and an overlay, have been applied
C1_Witness ==
    /\ Returned
    /\ Len(LastCall.queue) = 3
    /\ Result.items = <<"i2", "i1">>
    /\ LastCall.queue[2].tag = "AddOverlayShape"
    /\ Result.overlays = <<"s2">>

\* C2: processing SetBoundsX sets auto_bounds.x to false and leaves
\* auto_bounds.y as it was before the action; SetBoundsY sets auto_bounds.y
\* to false and leaves auto_bounds.x.  The queue [SetAutoBounds((true,true)),
\* SetBoundsX(r)] ends with auto_bounds = (false, true).
C2_SetBoundsDisablesOwnAxisOnly ==
    Returned =>
        /\ \A k \in 1..Len(LastCall.queue) :
              /\ LastCall.queue[k].tag = "SetBoundsX" =>
                    /\ After(k).auto_bounds.x = FALSE
                    /\ After(k).auto_bounds.y = After(k - 1).auto_bounds.y
              /\ LastCall.queue[k].tag = "SetBoundsY" =>
                    /\ After(k).auto_bounds.y = FALSE
                    /\ After(k).auto_bounds.x = After(k - 1).auto_bounds.x
        /\ \A r \in RangesX :
              LastCall.queue = <<SetAutoBounds(Vec2b(TRUE, TRUE)), SetBoundsX(r)>>
                  => Result.auto_bounds = Vec2b(FALSE, TRUE)

\* the queue [SetAutoBounds((true,true)), SetBoundsX(7..=3)] has been applied
C2_Witness ==
    /\ Returned
    /\ LastCall.queue = <<SetAutoBounds(Vec2b(TRUE, TRUE)),
                          SetBoundsX(RangeInclusive(7, 3))>>
    /\ Result.auto_bounds = Vec2b(FALSE, TRUE)

\* C3: processing a Translate or a Zoom action sets both auto-bounds flags
\* to false, whatever they were before the action.
C3_TranslateZoomDisableBoth ==
    Returned =>
        \A k \in 1..Len(LastCall.queue) :
            LastCall.queue[k].tag \in {"Translate", "Zoom"}
                => After(k).auto_bounds = Vec2b(FALSE, FALSE)

\* a Translate and a Zoom have each been applied to flags (true, true)
C3_Witness ==
    /\ Returned
    /\ Len(LastCall.queue) = 3
    /\ LastCall.queue[1].tag = "Translate"
    /\ LastCall.auto_bounds = Vec2b(TRUE, TRUE)
    /\ LastCall.queue[2] = SetAutoBounds(Vec2b(TRUE, TRUE))
    /\ LastCall.queue[3].tag = "Zoom"
    /\ Result.auto_bounds = Vec2b(FALSE, FALSE)

\* C4: processing SetAutoBounds(v) makes auto_bounds equal to v on both
\* axes, whatever the flags were and whatever bounds-setting, translate or
\* zoom action came earlier in the queue, and leaves the bounds unchanged.
C4_SetAutoBoundsOverwrites ==
    Returned =>
        \A k \in 1..Len(LastCall.queue) :
            LastCall.queue[k].tag = "SetAutoBounds" =>
                /\ After(k).auto_bounds = LastCall.queue[k].v
                /\ After(k).bounds = After(k - 1).bounds

\* SetAutoBounds((true,false)) has been applied after a Translate and a
\* SetBoundsY had disabled both flags and changed the bounds
C4_Witness ==
    /\ Returned
    /\ LastCall.queue = <<Translate(Vec2(1, -2)), SetBoundsY(RangeInclusive(-4, 6)),
                          SetAutoBounds(Vec2b(TRUE, FALSE))>>
    /\ After(2).auto_bounds = Vec2b(FALSE, FALSE)
    /\ Result.auto_bounds = Vec2b(TRUE, FALSE)
    /\ Result.bounds = PlotBounds(<<1, -4>>, <<11, 6>>)

\* the result of apply for the queue q and the inputs of the last call
ApplyTo(q) == apply(q, LastCall.bounds, LastCall.auto_bounds, None, None)

\* the actions that disable auto-bounds on the x axis, and on the y axis
DisablesX(a) == a.tag \in {"SetBoundsX", "Translate", "Zoom"}
DisablesY(a) == a.tag \in {"SetBoundsY", "Translate", "Zoom"}

\* C5, as the claim states it: if the queue contains a bounds-setting action
\* on an axis, or a Translate or a Zoom, then the flag of that axis is false
\* in the result, whatever else the queue contains and wherever it is placed.
C5_Original ==
    Returned =>
        /\ (\E k \in 1..Len(LastCall.queue) : DisablesX(LastCall.queue[k]))
              => Result.auto_bounds.x = FALSE
        /\ (\E k \in 1..Len(LastCall.queue) : DisablesY(LastCall.queue[k]))
              => Result.auto_bounds.y = FALSE

\* C5, amended: if the queue contains a bounds-setting action on an axis, or
\* a Translate or a Zoom, and no SetAutoBounds action later in the queue
\* turns the flag of that axis on, then that flag is false in the result.
C5_DisabledUnlessReenabled ==
    Returned =>
        \A k \in 1..Len(LastCall.queue) :
            /\ ( /\ DisablesX(LastCall.queue[k])
                 /\ \A j \in (k + 1)..Len(LastCall.queue) :
                        ~(LastCall.queue[j].tag = "SetAutoBounds" /\ LastCall.queue[j].v.x) )
                  => Result.auto_bounds.x = FALSE
            /\ ( /\ DisablesY(LastCall.queue[k])
                 /\ \A j \in (k + 1)..Len(LastCall.queue) :
                        ~(LastCall.queue[j].tag = "SetAutoBounds" /\ LastCall.queue[j].v.y) )
                  => Result.auto_bounds.y = FALSE

\* a Translate between two SetAutoBounds: the later one turns x on again and
\* leaves y off
C5_Witness ==
    /\ Returned
    /\ LastCall.queue = <<SetAutoBounds(Vec2b(TRUE, TRUE)), Translate(Vec2(1, -2)),
                          SetAutoBounds(Vec2b(TRUE, FALSE))>>
    /\ Result.auto_bounds = Vec2b(TRUE, FALSE)

Category(a) ==
    IF IsBoundsAffecting(a) THEN "bounds"
    ELSE IF IsAddItem(a) THEN "data" ELSE "decoration"

\* q with the actions at k and k + 1 exchanged
Swap(q, k) ==
    [i \in 1..Len(q) |-> IF i = k THEN q[k + 1] ELSE IF i = k + 1 THEN q[k] ELSE q[i]]

\* C8: categories do not interfere: bounds, auto_bounds and events depend
\* only on the subsequence of the bounds-affecting actions, items only on
\* the AddItem subsequence and overlays only on the AddOverlayShape
\* subsequence, so moving an action across an action of another category
\* does not change the result.
C8_CategoriesDoNotInterfere ==
    Returned =>
        LET q == LastCall.queue
            onBounds == ApplyTo(SelectSeq(q, IsBoundsAffecting))
        IN  /\ \A k \in 1..(Len(q) - 1) :
                  Category(q[k]) # Category(q[k + 1]) => ApplyTo(Swap(q, k)) = Result
            /\ Result.bounds = onBounds.bounds
            /\ Result.auto_bounds = onBounds.auto_bounds
            /\ Result.events = onBounds.events
            /\ Result.items = ApplyTo(SelectSeq(q, IsAddItem)).items
            /\ Result.overlays = ApplyTo(SelectSeq(q, IsAddOverlayShape)).overlays

\* an item added before a zoom: the result has the item and the zoomed bounds
C8_Witness ==
    /\ Returned
    /\ LastCall.queue = <<AddItem("i1"), Zoom(Vec2(2, 1), PlotPoint(5, 5)),
                          AddOverlayShape("s1")>>
    /\ LastCall.auto_bounds = Vec2b(TRUE, TRUE)
    /\ Result = AppliedActions(<<"i1">>, Vec2b(FALSE, FALSE),
                               PlotBounds(<<-5, 0>>, <<15, 10>>), <<"s1">>, <<>>)

\* C9: apply is total: for every queue, bounds and flags it is handed it has
\* a result, and the result it returns is complete: every queued action has
\* been applied exactly once, in order; no result of a prefix is returned.
C9_ApplyIsTotal ==
    /\ pc = "build" =>
          \A lt \in LastTransforms, resp \in Responses :
              DOMAIN apply(queue, bounds, auto_bounds, lt, resp)
                  = {"items", "auto_bounds", "bounds", "overlays", "events"}
    /\ Returned =>
          /\ applied # None
          /\ DOMAIN Result = {"items", "auto_bounds", "bounds", "overlays", "events"}
          /\ After(0) = AppliedActions(<<>>, LastCall.auto_bounds, LastCall.bounds,
                                       <<>>, <<>>)
          /\ \A k \in 1..Len(LastCall.queue) :
                After(k) = apply_action(After(k - 1), LastCall.queue[k])
          /\ Result = After(Len(LastCall.queue))
          /\ Len(Result.items) + Len(Result.overlays)
                + Cardinality({k \in 1..Len(LastCall.queue) :
                                  IsBoundsAffecting(LastCall.queue[k])})
             = Len(LastCall.queue)

\* the queue [SetBoundsX(0..=10), AddItem(i1), Translate((1,-2))] has been
\* applied in full
C9_Witness ==
    /\ Returned
    /\ LastCall.queue = <<SetBoundsX(RangeInclusive(0, 10)), AddItem("i1"),
                          Translate(Vec2(1, -2))>>
    /\ LastCall.auto_bounds = Vec2b(TRUE, TRUE)
    /\ Result.bounds = PlotBounds(<<1, -2>>, <<11, 8>>)
    /\ Result.auto_bounds = Vec2b(FALSE, FALSE)
    /\ Result.items = <<"i1">>
    /\ Len(Result.events) = 1

\* two calls with the same queue contents, bounds and flags
SameInputs(c, d) ==
    /\ c.queue = d.queue
    /\ c.bounds = d.bounds
    /\ c.auto_bounds = d.auto_bounds

\* C10: apply is deterministic and keeps no state between frames: two calls
\* with equal queue contents, input bounds and input flags return equal
\* results, whatever the earlier calls were and whatever the values of the
\* arguments _last_transform and _response are.
C10_Deterministic ==
    /\ \A i, j \in 1..Len(calls) :
          SameInputs(calls[i], calls[j]) => calls[i].result = calls[j].result
    /\ Returned =>
          \A lt \in LastTransforms, resp \in Responses :
              Result = apply(LastCall.queue, LastCall.bounds, LastCall.auto_bounds,
                             lt, resp)

\* two frames have applied the same non-empty queue to the same bounds and
\* flags
C10_Witness ==
    /\ Len(calls) = 2
    /\ SameInputs(calls[1], calls[2])
    /\ calls[1].queue = <<SetBoundsX(RangeInclusive(0, 10))>>
    /\ Len(calls[1].result.events) = 1
    /\ calls[1].result = calls[2].result

\* the actions that change the bounds
ChangesBounds(a) == a.tag \in {"SetBoundsX", "SetBoundsY", "Translate", "Zoom"}

\* C11: apply never performs auto-fit: for a queue with no SetBoundsX,
\* SetBoundsY, Translate or Zoom action the result's bounds are the input
\* bounds, even when auto-bounds flags are or become true; apply never emits
\* an AutoFitApplied event; with an empty queue auto_bounds is returned
\* unchanged too and items, overlays and events are empty.
C11_NoAutoFit ==
    Returned =>
        /\ (\A k \in 1..Len(LastCall.queue) : ~ChangesBounds(LastCall.queue[k]))
              => Result.bounds = LastCall.bounds
        /\ \A n \in 1..Len(Result.events) : Result.events[n].tag # "AutoFitApplied"
        /\ LastCall.queue = <<>> =>
              Result = AppliedActions(<<>>, LastCall.auto_bounds, LastCall.bounds,
                                      <<>>, <<>>)

\* both flags have been turned on and an item added: the bounds are the
\* input bounds
C11_Witness ==
    /\ Returned
    /\ LastCall.queue = <<SetAutoBounds(Vec2b(TRUE, TRUE)), AddItem("i1")>>
    /\ LastCall.auto_bounds = Vec2b(FALSE, FALSE)
    /\ Result.auto_bounds = Vec2b(TRUE, TRUE)
    /\ Result.bounds = PlotBounds(<<0, 0>>, <<10, 10>>)

\* C12: setting bounds is idempotent: wherever SetBoundsX(r) is followed by
\* the same SetBoundsX(r), the bounds and the flags after the second are
\* those after the first, so [SetBoundsX(r), SetBoundsX(r)] yields the final
\* bounds and flags of [SetBoundsX(r)]; likewise for SetBoundsY.
C12_SetBoundsIdempotent ==
    Returned =>
        /\ \A k \in 1..(Len(LastCall.queue) - 1) :
              ( /\ IsSetBounds(LastCall.queue[k])
                /\ LastCall.queue[k + 1] = LastCall.queue[k] )
                  => /\ After(k + 1).bounds = After(k).bounds
                     /\ After(k + 1).auto_bounds = After(k).auto_bounds
        /\ \A r \in RangesX \cup RangesY, t \in {"SetBoundsX", "SetBoundsY"} :
              LET a == [tag |-> t, range |-> r] IN
              LastCall.queue = <<a, a>> =>
                  /\ Result.bounds = ApplyTo(<<a>>).bounds
                  /\ Result.auto_bounds = ApplyTo(<<a>>).auto_bounds

\* SetBoundsX(7..=3) has been applied twice to the bounds x [0,10]
C12_Witness ==
    /\ Returned
    /\ LastCall.queue = <<SetBoundsX(RangeInclusive(7, 3)),
                          SetBoundsX(RangeInclusive(7, 3))>>
    /\ LastCall.auto_bounds = Vec2b(TRUE, TRUE)
    /\ Result.bounds = PlotBounds(<<7, 0>>, <<3, 10>>)
    /\ Result.auto_bounds = Vec2b(FALSE, TRUE)

\* the sum of the deltas of the Translate actions of q
RECURSIVE SumDeltas(_)
SumDeltas(q) ==
    IF q = <<>> THEN Vec2(0, 0)
    ELSE LET rest == SumDeltas(Tail(q)) IN
         IF Head(q).tag = "Translate"
         THEN Vec2(Head(q).delta.x + rest.x, Head(q).delta.y + rest.y)
         ELSE rest

\* C13: pan deltas add up: a queue of Translate actions, possibly with
\* AddItem and AddOverlayShape actions between them, moves the min and the
\* max corner of the bounds by the sum of the deltas, which is what one
\* Translate of the sum does.
C13_TranslateAdditive ==
    ( /\ Returned
      /\ \A k \in 1..Len(LastCall.queue) :
            LastCall.queue[k].tag \in {"Translate", "AddItem", "AddOverlayShape"} )
        => LET d == SumDeltas(LastCall.queue) IN
           /\ Result.bounds.min = <<LastCall.bounds.min[1] + d.x,
                                    LastCall.bounds.min[2] + d.y>>
           /\ Result.bounds.max = <<LastCall.bounds.max[1] + d.x,
                                    LastCall.bounds.max[2] + d.y>>
           /\ (\E k \in 1..Len(LastCall.queue) : LastCall.queue[k].tag = "Translate")
                 => Result.bounds = ApplyTo(<<Translate(d)>>).bounds

\* two different deltas around an item have moved the bounds by their sum
C13_Witness ==
    /\ Returned
    /\ LastCall.queue = <<Translate(Vec2(1, -2)), AddItem("i1"), Translate(Vec2(3, 1))>>
    /\ Result.bounds = PlotBounds(<<4, -1>>, <<14, 9>>)

\* C14: replay of a box zoom: once SetBoundsX(x0..=x1) and
\* SetBoundsY(y0..=y1) have been applied, in either order, and no action
\* that changes the bounds follows the first of them, the final bounds have
\* the x-range [x0,x1] and the y-range [y0,y1] exactly.
C14_BoxZoomReplay ==
    Returned =>
        \A i, j \in 1..Len(LastCall.queue) :
            ( /\ LastCall.queue[i].tag = "SetBoundsX"
              /\ LastCall.queue[j].tag = "SetBoundsY"
              /\ \A k \in 1..Len(LastCall.queue) :
                    (k > i \/ k > j) /\ k # i /\ k # j
                        => ~ChangesBounds(LastCall.queue[k]) )
            => Result.bounds =
                  PlotBounds(<<LastCall.queue[i].range.start, LastCall.queue[j].range.start>>,
                             <<LastCall.queue[i].range.end, LastCall.queue[j].range.end>>)

\* the y-range and then the x-range of a box zoom have been set on translated
\* bounds
C14_Witness ==
    /\ Returned
    /\ LastCall.queue = <<Translate(Vec2(1, -2)), SetBoundsY(RangeInclusive(-4, 6)),
                          SetBoundsX(RangeInclusive(7, 3))>>
    /\ Result.bounds = PlotBounds(<<7, -4>>, <<3, 6>>)

\* C15: the queue is FIFO: after any sequence of push, extend and
\* convenience calls, drain returns exactly the actions submitted, in the
\* order of submission, the actions of each extend batch together and in
\* the order of the batch.
C15_QueueIsFifo ==
    /\ pc = "build" => drain(queue) = submitted
    /\ pc = "drained" => observed = Observed("drain", submitted)

\* a zoom and then the two actions of a batch have been drained
C15_Witness ==
    /\ pc = "drained"
    /\ submitted = <<Zoom(Vec2(2, 1), PlotPoint(5, 5)),
                     SetBoundsX(RangeInclusive(7, 3)), AddItem("i2")>>
    /\ observed[1].value = submitted

\* C16: the queries are consistent and read-only: len() is the number of
\* actions submitted, is_empty() holds iff len() = 0, iter() yields the
\* queued actions in insertion order, iter_items() yields the payloads of
\* the AddItem actions in insertion order, and none of them changes the
\* queued actions.
C16_QueriesConsistent ==
    pc = "build" =>
        /\ len(queue) = Len(submitted)
        /\ is_empty(queue) <=> len(queue) = 0
        /\ iter(queue) = submitted
        /\ iter_items(queue) = ItemsOf(submitted)
        /\ observed # None =>
              /\ queue = submitted
              /\ observed[1].op = "len" => observed[1].value = Len(submitted)
              /\ observed[1].op = "is_empty" => observed[1].value = (submitted = <<>>)
              /\ observed[1].op = "iter" => observed[1].value = submitted
              /\ observed[1].op = "iter_items" => observed[1].value = ItemsOf(submitted)

\* iter_items has been asked of a queue with two items around another action
C16_Witness ==
    /\ pc = "build"
    /\ submitted = <<AddItem("i2"), AddOverlayShape("s1"), AddItem("i1")>>
    /\ observed = Observed("iter_items", <<"i2", "i1">>)
    /\ queue = submitted

(***************************************************************************)
(* Properties of the interval algebra                                      *)
(***************************************************************************)
\* the interval at hand and the call that made it
TheInterval == interval[1]
Made == made_by[1]
Asked == observed[1]

\* the order of bounds, as a number: NegInf below every finite bound, PosInf
\* above; finite bounds by value, and at equal value open below closed
BoundRank(b) ==
    CASE b.kind = "NegInf" -> -2 * INFINITY
      [] b.kind = "PosInf" -> 2 * INFINITY
      [] b.kind = "Finite" -> 2 * b.v + (IF b.end = "Closed" THEN 1 ELSE 0)
InOrder(iv) == BoundRank(iv.start) <= BoundRank(iv.end)

\* the pair of bounds a call was given
GivenPair(m) ==
    CASE m.op \in {"new", "literal"} -> Interval(m.args[1], m.args[2])
      [] m.op = "closed" -> Interval(Bound_closed(m.args[1]), Bound_closed(m.args[2]))
      [] m.op = "open" -> Interval(Bound_open(m.args[1]), Bound_open(m.args[2]))
      [] m.op = "open_closed" -> Interval(Bound_open(m.args[1]), Bound_closed(m.args[2]))
      [] m.op = "closed_open" -> Interval(Bound_closed(m.args[1]), Bound_open(m.args[2]))
      [] m.op = "below" -> Interval(NegInf, Finite(m.args[1], m.args[2]))
      [] m.op = "above" -> Interval(Finite(m.args[1], m.args[2]), PosInf)
      [] m.op = "all" -> Interval(NegInf, PosInf)
      [] m.op = "from" ->
            Interval(IF m.args[1] = None THEN NegInf ELSE Finite(m.args[1][1], "Closed"),
                     IF m.args[2] = None THEN PosInf ELSE Finite(m.args[2][1], "Closed"))
      [] m.op = "normalize" -> m.args[1]

\* C17: every Interval that a constructor (new, closed, open, open_closed,
\* closed_open, below, above, all, From<(Option, Option)>) or normalize
\* produced has start <= end in the order of bounds (NegInf < finite < PosInf,
\* finite by value, open below closed at equal value); it is the given pair
\* when that pair is in order and the swapped pair when it is not, and a pair
\* is never rejected.
C17_StartBelowEnd ==
    (made_by # None /\ Made.op # "literal") =>
        LET given == GivenPair(Made)
        IN  /\ interval # None
            /\ InOrder(TheInterval)
            /\ InOrder(given) => TheInterval = given
            /\ ~InOrder(given) => TheInterval = Interval(given.end, given.start)

\* C17 witness: new() was given a closed and an open bound at the same value
\* in the wrong order and returned them swapped.
C17_Witness ==
    /\ made_by = MadeBy("new", <<Bound_closed(1), Bound_open(1)>>)
    /\ interval = Some(Interval(Bound_open(1), Bound_closed(1)))

\* the two ends are finite at the same value
SinglePoint(iv) ==
    /\ iv.start.kind = "Finite"
    /\ iv.end.kind = "Finite"
    /\ iv.start.v = iv.end.v
BothClosed(iv) == iv.start.end = "Closed" /\ iv.end.end = "Closed"

\* C18: an interval whose two ends are finite at the same value is empty
\* unless both ends are closed; and an interval that is_empty, normalized or
\* not, contains no finite x.
C18_EmptyContainsNothing ==
    interval # None =>
        /\ SinglePoint(TheInterval) =>
              (Interval_is_empty(TheInterval) <=> ~BothClosed(TheInterval))
        /\ Interval_is_empty(TheInterval) =>
              \A x \in FiniteProbes : ~contains(TheInterval, x)
        /\ (observed # None /\ Asked.op = "is_empty" /\ SinglePoint(TheInterval)) =>
              (Asked.value.value <=> ~BothClosed(TheInterval))
        /\ ( /\ observed # None
             /\ Asked.op = "contains"
             /\ is_finite(Asked.value.x)
             /\ Interval_is_empty(TheInterval) ) => ~Asked.value.value

\* C18 witness: an interval written as a struct, not normalized, closed and
\* open at the same value, is empty and was asked for that value.
C18_Witness ==
    /\ made_by = MadeBy("literal", <<Bound_closed(1), Bound_open(1)>>)
    /\ interval = Some(Interval(Bound_closed(1), Bound_open(1)))
    /\ Interval_is_empty(TheInterval)
    /\ observed = Observed("contains", [x |-> 1, value |-> FALSE])

\* x is on the right side of the start, and of the end
RightOfStart(b, x) ==
    \/ b.kind = "NegInf"
    \/ b.kind = "Finite" /\ b.end = "Closed" /\ x >= b.v
    \/ b.kind = "Finite" /\ b.end = "Open" /\ x > b.v
LeftOfEnd(b, x) ==
    \/ b.kind = "PosInf"
    \/ b.kind = "Finite" /\ b.end = "Closed" /\ x <= b.v
    \/ b.kind = "Finite" /\ b.end = "Open" /\ x < b.v

\* C19: for finite a <= b, closed(a, b) contains a and b and open(a, b)
\* contains neither; for every finite x, contains(x) is true iff x is >=
\* (closed) or > (open) the start or the start is NegInf, and x is <= (closed)
\* or < (open) the end or the end is PosInf.
C19_ContainsEnds ==
    interval # None =>
        /\ (Made.op = "closed" /\ Made.args[1] <= Made.args[2]) =>
              contains(TheInterval, Made.args[1]) /\ contains(TheInterval, Made.args[2])
        /\ (Made.op = "open" /\ Made.args[1] <= Made.args[2]) =>
              ~contains(TheInterval, Made.args[1]) /\ ~contains(TheInterval, Made.args[2])
        /\ \A x \in FiniteProbes :
              contains(TheInterval, x) <=>
                  (RightOfStart(TheInterval.start, x) /\ LeftOfEnd(TheInterval.end, x))
        /\ ( /\ observed # None
             /\ Asked.op = "contains"
             /\ is_finite(Asked.value.x) ) =>
              (Asked.value.value <=>
                  ( /\ RightOfStart(TheInterval.start, Asked.value.x)
                    /\ LeftOfEnd(TheInterval.end, Asked.value.x) ))

\* C19 witness: closed(0, 2) was asked for its end 2 and contains it.
C19_Witness ==
    /\ made_by = MadeBy("closed", <<0, 2>>)
    /\ interval = Some(Interval(Bound_closed(0), Bound_closed(2)))
    /\ observed = Observed("contains", [x |-> 2, value |-> TRUE])

\* C20: whatever the shape of the interval (all(), half-infinite, finite,
\* empty), contains(x) is false for x = NaN, +infinity and -infinity.
C20_NonFiniteNeverContained ==
    interval # None =>
        /\ \A x \in NonFiniteProbes : ~contains(TheInterval, x)
        /\ ( /\ observed # None
             /\ Asked.op = "contains"
             /\ ~is_finite(Asked.value.x) ) => ~Asked.value.value

\* C20 witness: all() was asked for +infinity and does not contain it.
C20_Witness ==
    /\ made_by = MadeBy("all", <<>>)
    /\ interval = Some(Interval(NegInf, PosInf))
    /\ observed = Observed("contains", [x |-> INFINITY, value |-> FALSE])

\* C21: for every interval I that is not empty, I.intersect(I) == Some(I).
C21_SelfIntersection ==
    (interval # None /\ ~Interval_is_empty(TheInterval)) =>
        /\ intersect(TheInterval, TheInterval) = Some(TheInterval)
        /\ ( /\ observed # None
             /\ Asked.op = "intersect"
             /\ Asked.value.x = TheInterval ) => Asked.value.value = Some(TheInterval)

\* C21 witness: the interval of the one point 1, closed at both ends, was
\* intersected with itself and came back.
C21_Witness ==
    /\ made_by = MadeBy("closed", <<1, 1>>)
    /\ ~Interval_is_empty(TheInterval)
    /\ observed = Observed("intersect", [x |-> Interval(Bound_closed(1), Bound_closed(1)),
                                         value |-> Some(TheInterval)])

\* an operand in order: as it is when its ends are in order, else swapped
InOrderOf(iv) == IF InOrder(iv) THEN iv ELSE Interval(iv.end, iv.start)
\* the higher and the lower of two bounds in the order of bounds
HigherBound(a, b) == IF BoundRank(a) >= BoundRank(b) THEN a ELSE b
LowerBound(a, b) == IF BoundRank(a) <= BoundRank(b) THEN a ELSE b
\* the candidate of an intersection: the highest start and the lowest end of
\* the operands put in order
Candidate(a, b) ==
    Interval(HigherBound(InOrderOf(a).start, InOrderOf(b).start),
             LowerBound(InOrderOf(a).end, InOrderOf(b).end))

\* C22: intersect of any two intervals, in order or not, returns None when
\* the candidate (highest start, lowest end of the normalized operands) is
\* empty and Some(candidate) when it is not; a returned Some(J) has J not
\* empty and start <= end in the order of bounds.
C22_IntersectTotal ==
    (observed # None /\ Asked.op = "intersect") =>
        LET cand == Candidate(TheInterval, Asked.value.x)
            out == Asked.value.value
        IN  /\ Interval_is_empty(cand) => out = None
            /\ ~Interval_is_empty(cand) => out = Some(cand)
            /\ out # None => (~Interval_is_empty(out[1]) /\ InOrder(out[1]))

\* C22 witness: [0, 2] was intersected with the struct (2 open, 1 closed),
\* which is not in order, and [1, 2) came back.
C22_Witness ==
    /\ made_by = MadeBy("closed", <<0, 2>>)
    /\ observed = Observed("intersect", [x |-> Interval(Bound_open(2), Bound_closed(1)),
                                         value |-> Some(Interval(Bound_closed(1), Bound_open(2)))])

\* the bound a legacy end is mapped to
LegacyStart(lo) == IF lo = None THEN NegInf ELSE Finite(lo[1], "Closed")
LegacyEnd(hi) == IF hi = None THEN PosInf ELSE Finite(hi[1], "Closed")
\* x is within the legacy pair
WithinLegacy(lo, hi, x) == (lo = None \/ x >= lo[1]) /\ (hi = None \/ x <= hi[1])
\* both ends are given and the lower one is above the upper one
LegacyInverted(lo, hi) == lo # None /\ hi # None /\ lo[1] > hi[1]

\* C24 as stated: Interval::from((lo, hi)) has start NegInf / closed at lo
\* and end PosInf / closed at hi, whatever the order of lo and hi; for
\* lo <= hi it contains a finite x iff x is within (lo, hi).
C24_Original ==
    (made_by # None /\ Made.op = "from") =>
        LET lo == Made.args[1]
            hi == Made.args[2]
        IN  /\ TheInterval.start = LegacyStart(lo)
            /\ TheInterval.end = LegacyEnd(hi)
            /\ ~LegacyInverted(lo, hi) =>
                  \A x \in FiniteProbes : contains(TheInterval, x) <=> WithinLegacy(lo, hi, x)

\* C24, amended: when lo <= hi or an end is absent, Interval::from((lo, hi))
\* has start NegInf / closed at lo and end PosInf / closed at hi, and it
\* contains a finite x iff x is within (lo, hi); when lo > hi the two closed
\* bounds are swapped: the start is closed at hi and the end is closed at lo.
C24_LegacyAdapter ==
    (made_by # None /\ Made.op = "from") =>
        LET lo == Made.args[1]
            hi == Made.args[2]
        IN  /\ ~LegacyInverted(lo, hi) =>
                  /\ TheInterval.start = LegacyStart(lo)
                  /\ TheInterval.end = LegacyEnd(hi)
                  /\ \A x \in FiniteProbes :
                        contains(TheInterval, x) <=> WithinLegacy(lo, hi, x)
            /\ LegacyInverted(lo, hi) =>
                  /\ TheInterval.start = LegacyStart(hi)
                  /\ TheInterval.end = LegacyEnd(lo)

\* C24 witness: from((Some(1), None)) is [1, +inf) and contains its end 1.
C24_Witness ==
    /\ made_by = MadeBy("from", <<Some(1), None>>)
    /\ interval = Some(Interval(Bound_closed(1), PosInf))
    /\ observed = Observed("contains", [x |-> 1, value |-> TRUE])

(***************************************************************************)
(* Properties of the projection to screen space and of the span items      *)
(***************************************************************************)
\* the call observed, its arguments and what it returned
CallOf(ops) == observed # None /\ Asked.op \in ops
Args == Asked.value.args
Value == Asked.value.value

\* the screen position the claim gives to a start and to an end on the y
\* axis and on the x axis; `inf` tells whether the end is infinite and v is
\* its value when it is not
StartOnY(tf, inf, v) == IF inf THEN tf.frame.bottom ELSE position_y(tf, v)
EndOnY(tf, inf, v) == IF inf THEN tf.frame.top ELSE position_y(tf, v)
StartOnX(tf, inf, v) == IF inf THEN tf.frame.left ELSE position_x(tf, v)
EndOnX(tf, inf, v) == IF inf THEN tf.frame.right ELSE position_x(tf, v)
\* the pair <<lo, hi>> is the two positions a and b in order
OrderedPairOf(pair, a, b) ==
    /\ pair[1] <= pair[2]
    /\ {pair[1], pair[2]} = {a, b}
\* an Interval whose start is NegInf or finite and whose end is PosInf or finite
StartsLowEndsHigh(iv) == iv.start.kind # "PosInf" /\ iv.end.kind # "NegInf"
\* the value of a bound, 0 when it has none
ValueOr0(b) == IF b.kind = "Finite" THEN b.v ELSE 0

\* C23: to_screen_x and to_screen_y (and interval_to_screen_x/y of
\* span_utils) return a pair (lo, hi) with lo <= hi for every interval and
\* transform, inverted axes included; a finite end is projected by the
\* transform, a NegInf start is the frame's left (x) or bottom (y) edge and a
\* PosInf end is the frame's right (x) or top (y) edge.
C23_ScreenSpanOrdered ==
    /\ CallOf({"to_screen_y", "to_screen_x", "interval_to_screen_y",
               "interval_to_screen_x"}) => Value[1] <= Value[2]
    /\ (CallOf({"to_screen_y"}) /\ StartsLowEndsHigh(Args[1])) =>
          OrderedPairOf(Value,
              StartOnY(Args[2], Args[1].start.kind = "NegInf", ValueOr0(Args[1].start)),
              EndOnY(Args[2], Args[1].end.kind = "PosInf", ValueOr0(Args[1].end)))
    /\ (CallOf({"to_screen_x"}) /\ StartsLowEndsHigh(Args[1])) =>
          OrderedPairOf(Value,
              StartOnX(Args[2], Args[1].start.kind = "NegInf", ValueOr0(Args[1].start)),
              EndOnX(Args[2], Args[1].end.kind = "PosInf", ValueOr0(Args[1].end)))
    /\ ( /\ CallOf({"interval_to_screen_y"})
         /\ Args[1].start # INFINITY
         /\ Args[1].end # NEG_INFINITY ) =>
          OrderedPairOf(Value,
              StartOnY(Args[2], Args[1].start = NEG_INFINITY, Args[1].start),
              EndOnY(Args[2], Args[1].end = INFINITY, Args[1].end))
    /\ ( /\ CallOf({"interval_to_screen_x"})
         /\ Args[1].start # INFINITY
         /\ Args[1].end # NEG_INFINITY ) =>
          OrderedPairOf(Value,
              StartOnX(Args[2], Args[1].start = NEG_INFINITY, Args[1].start),
              EndOnX(Args[2], Args[1].end = INFINITY, Args[1].end))

\* C23 witness: (-inf, 1] on the y axis of a transform that is not inverted:
\* the start is the bottom edge 55, the end projects to 35, above it on the
\* screen, and the pair comes back re-ordered.
C23_Witness ==
    observed = Observed("to_screen_y",
                        [args |-> <<Interval(NegInf, Bound_closed(1)),
                                    PlotTransform(Vec2b(FALSE, FALSE))>>,
                         value |-> <<35, 55>>])

\* a span whose two ends are given and finite
BothEndsFinite(span) ==
    /\ span.min # None /\ is_finite(span.min[1])
    /\ span.max # None /\ is_finite(span.max[1])

\* C25: HSpan::shapes and VSpan::shapes append no shape when the range of the
\* span is zero-width (min = max) or inverted (min > max).
C25_DegenerateDrawsNothing ==
    ( /\ CallOf({"HSpan::shapes", "VSpan::shapes"})
      /\ BothEndsFinite(Args[1])
      /\ Args[1].min[1] >= Args[1].max[1] ) => Value = Args[3]

\* a span whose ends are absent or finite, and the rectangle the call appended
EndsAbsentOrFinite(span) ==
    /\ span.min = None \/ is_finite(span.min[1])
    /\ span.max = None \/ is_finite(span.max[1])
Emitted == Len(Value) > Len(Args[3])
EmittedRect == Value[Len(Args[3]) + 1].rect

\* C26: the vertical extent of the rectangle an HSpan with bounds (lo, hi)
\* emits is Interval::from((lo, hi)).to_screen_y(transform), and the
\* horizontal extent of the rectangle of a VSpan is
\* Interval::from((lo, hi)).to_screen_x(transform); either bound may be absent.
C26_SpanExtentIsInterval ==
    /\ ( /\ CallOf({"HSpan::shapes"})
         /\ EndsAbsentOrFinite(Args[1])
         /\ Emitted ) =>
          <<EmittedRect.min[2], EmittedRect.max[2]>>
              = to_screen_y(Interval_from(Args[1].min, Args[1].max), Args[2])
    /\ ( /\ CallOf({"VSpan::shapes"})
         /\ EndsAbsentOrFinite(Args[1])
         /\ Emitted ) =>
          <<EmittedRect.min[1], EmittedRect.max[1]>>
              = to_screen_x(Interval_from(Args[1].min, Args[1].max), Args[2])

(***************************************************************************)
(* Properties of the plot items built from slices                          *)
(***************************************************************************)
\* the columns of an item have the same length
EqualLengths(it) ==
    IF "ys" \in DOMAIN it
    THEN Len(it.xs) = Len(it.ys)
    ELSE Len(it.xs) = Len(it.y_min) /\ Len(it.xs) = Len(it.y_max)

\* C27: ColumnarSeries::new and From panic when xs and ys differ in length,
\* Band::with_series panics when y_min or y_max differs in length from xs;
\* the panic ends the build and produces no item, so every item an AddItem
\* action carries in the queue, and every item the reducer returns, has
\* columns of equal length.
C27_MismatchFailsFast ==
    /\ ( /\ CallOf({"new", "from"})
         /\ Len(Args[1]) # Len(Args[2]) ) =>
          /\ Value = Panic
          /\ pc = "panicked"
          /\ plot_item # Some(ColumnarSeries(Args[1], Args[2]))
    /\ ( /\ CallOf({"with_series"})
         /\ (Len(Args[1]) # Len(Args[2]) \/ Len(Args[1]) # Len(Args[3])) ) =>
          /\ Value = Panic
          /\ pc = "panicked"
          /\ plot_item # Some(Band(Args[1], Args[2], Args[3]))
    /\ plot_item # None => EqualLengths(plot_item[1])
    /\ \A k \in 1..Len(queue) :
          queue[k].tag = "AddItem" => EqualLengths(queue[k].item)
    /\ applied # None =>
          \A k \in 1..Len(applied[1].items) : EqualLengths(applied[1].items[k])

\* C27 witness: after one item was queued, with_series was given a y_max
\* shorter than xs and panicked.
C27_Witness ==
    /\ pc = "panicked"
    /\ Len(queue) = 1
    /\ observed = Observed("with_series",
                           [args |-> <<Samples(0, 2), Samples(1, 2), Samples(2, 1)>>,
                            value |-> Panic])

\* the first n elements of a slice
FirstN(xs, n) == [i \in 1..n |-> xs[i]]
\* the lower of two lengths
Shorter(a, b) == IF a <= b THEN a ELSE b

\* C28: every ColumnarSeries obtained from new, new_truncating, EMPTY, slice
\* or From has xs.len() == ys.len(); new_truncating never panics and holds
\* the first min(xs.len(), ys.len()) elements of each input; get(i) is
\* Some((xs[i], ys[i])) when i < len() and None otherwise.
C28_SeriesWellFormed ==
    /\ plot_item # None => Len(plot_item[1].xs) = Len(plot_item[1].ys)
    /\ CallOf({"new_truncating"}) =>
          LET n == Shorter(Len(Args[1]), Len(Args[2]))
          IN  Value = Ok(ColumnarSeries(FirstN(Args[1], n), FirstN(Args[2], n)))
    /\ CallOf({"get"}) =>
          IF Args[2] < Len(Args[1].xs)
          THEN Value = Ok(Some(<<Args[1].xs[Args[2] + 1], Args[1].ys[Args[2] + 1]>>))
          ELSE Value = Ok(None)

\* C28 witness: new_truncating of three xs and one y holds the first x and
\* the y.
C28_Witness ==
    /\ observed = Observed("new_truncating",
                           [args |-> <<Samples(0, 3), Samples(1, 1)>>,
                            value |-> Ok(ColumnarSeries(<<1>>, <<11>>))])
    /\ plot_item = Some(ColumnarSeries(<<1>>, <<11>>))

\* the first index and the index after the last of a range, as numbers
\* without a width, put into 0..n
FirstIndex(range, n) ==
    Shorter(CASE range[1][1] = "Unbounded" -> 0
              [] range[1][1] = "Included" -> range[1][2]
              [] range[1][1] = "Excluded" -> range[1][2] + 1, n)
PastIndex(range, n) ==
    Shorter(CASE range[2][1] = "Unbounded" -> n
              [] range[2][1] = "Included" -> range[2][2] + 1
              [] range[2][1] = "Excluded" -> range[2][2], n)
\* the elements of xs at the indices first..(past - 1), counted from 0
ElementsAt(xs, first, past) == [i \in 1..(past - first) |-> xs[first + i]]

\* C29: slice never panics; for every range (included, excluded or unbounded
\* ends, indices beyond len() and usize::MAX) the start and the end are put
\* into [0, len()], an empty or inverted range gives EMPTY, and otherwise the
\* result holds the elements at the indices start..end of both columns.
C29_SliceClamped ==
    CallOf({"slice"}) =>
        LET self == Args[1]
            n == Len(self.xs)
            first == FirstIndex(Args[2], n)
            past == PastIndex(Args[2], n)
        IN  /\ Value # Panic
            /\ past <= first => Value = Ok(EMPTY)
            /\ past > first =>
                  Value = Ok(ColumnarSeries(ElementsAt(self.xs, first, past),
                                            ElementsAt(self.ys, first, past)))

\* C29 witness: the range from after index 0 to usize::MAX included, of a
\* series of three samples, gives the last two.
C29_Witness ==
    observed = Observed("slice",
                        [args |-> <<ColumnarSeries(Samples(0, 3), Samples(1, 3)),
                                    Range(Excluded(0), Included(USIZE_MAX))>>,
                         value |-> Ok(ColumnarSeries(<<2, 3>>, <<12, 13>>))])

AskedIntersect == observed # None /\ Asked.op = "intersect"
Other == Asked.value.x
Intersection == Asked.value.value

\* C33: intersect computes the set intersection: for A made by a constructor
\* and B in order (as every constructor returns it), a finite x is contained
\* in the returned interval iff A contains x and B contains x; None is
\* returned only when no x lies in both.  The x are the values of the ends
\* and their neighbours.
C33_IntersectIsSetIntersection ==
    (AskedIntersect /\ Made.op # "literal" /\ InOrder(Other)) =>
        \A x \in FiniteProbes :
            (Intersection # None /\ contains(Intersection[1], x))
                <=> (contains(TheInterval, x) /\ contains(Other, x))

\* C34: intersect is commutative: A.intersect(B) and B.intersect(A) are both
\* None or both Some of the same interval, for all A and B, in order or not,
\* also when A and B have an end of the same value.
C34_IntersectCommutes ==
    AskedIntersect => Intersection = intersect(Other, TheInterval)

\* C34 witness: [0, 1] was intersected with (0, 1], which has the same end
\* and a start of the same value, and [0, 1] came back.
C34_Witness ==
    /\ made_by = MadeBy("closed", <<0, 1>>)
    /\ observed = Observed("intersect", [x |-> Interval(Bound_open(0), Bound_closed(1)),
                                         value |-> Some(Interval(Bound_closed(0), Bound_closed(1)))])

(***************************************************************************)
(* The flags as a fold over the queue                                      *)
(***************************************************************************)
\* the actions that write the flag of the x axis, and of the y axis, and the
\* value they write
WritesX(a) == a.tag \in {"SetBoundsX", "Translate", "Zoom", "SetAutoBounds"}
WritesY(a) == a.tag \in {"SetBoundsY", "Translate", "Zoom", "SetAutoBounds"}
WrittenX(a) == a.tag = "SetAutoBounds" /\ a.v.x
WrittenY(a) == a.tag = "SetAutoBounds" /\ a.v.y
\* the positions of q that hold a writer, and the last of a set of positions
WritersX(q) == {k \in 1..Len(q) : WritesX(q[k])}
WritersY(q) == {k \in 1..Len(q) : WritesY(q[k])}
Last(S) == CHOOSE k \in S : \A j \in S : j <= k

\* C35: for each axis, the flag of the result is the value written by the
\* last action of the queue that writes that axis (false for SetBounds of
\* that axis, Translate and Zoom, the given component for SetAutoBounds), and
\* the input flag when no action writes it; an AddItem or AddOverlayShape
\* action leaves both flags as they were before it.
C35_LastWriterWins ==
    Returned =>
        LET q == LastCall.queue
        IN  /\ Result.auto_bounds.x =
                  IF WritersX(q) = {} THEN LastCall.auto_bounds.x
                  ELSE WrittenX(q[Last(WritersX(q))])
            /\ Result.auto_bounds.y =
                  IF WritersY(q) = {} THEN LastCall.auto_bounds.y
                  ELSE WrittenY(q[Last(WritersY(q))])
            /\ \A k \in 1..Len(q) :
                  q[k].tag \in {"AddItem", "AddOverlayShape"} =>
                      After(k).auto_bounds = After(k - 1).auto_bounds

\* C35 witness: after Zoom, SetAutoBounds(true, true), SetBoundsY the x flag
\* is the one SetAutoBounds wrote and the y flag the one SetBoundsY wrote.
C35_Witness ==
    /\ Returned
    /\ LastCall.queue = <<Zoom(Vec2(2, 1), PlotPoint(5, 5)), SetAutoBounds(Vec2b(TRUE, TRUE)),
                          SetBoundsY(RangeInclusive(-4, 6))>>
    /\ Result.auto_bounds = Vec2b(TRUE, FALSE)

(***************************************************************************)
(* The fields an action touches                                            *)
(***************************************************************************)
\* the range of one axis of bounds b, and its extent
AxisRange(b, axis) == <<b.min[axis], b.max[axis]>>
Extent(b, axis) == b.max[axis] - b.min[axis]

\* C36: each action of the queue touches only its own fields of the running
\* state of the loop.  SetBoundsX leaves the y range, auto_bounds.y, items
\* and overlays as they were, and SetBoundsY the x range, auto_bounds.x,
\* items and overlays; Translate leaves items, overlays and events as they
\* were and moves min and max of each axis by the delta, so that the extent
\* of each axis is kept; AddItem changes only items and AddOverlayShape only
\* overlays.
C36_OnlyOwnFields ==
    Returned =>
        \A k \in 1..Len(LastCall.queue) :
            LET a == LastCall.queue[k]
                pre == After(k - 1)
                post == After(k)
            IN  /\ a.tag = "SetBoundsX" =>
                      /\ AxisRange(post.bounds, 2) = AxisRange(pre.bounds, 2)
                      /\ post.auto_bounds.y = pre.auto_bounds.y
                      /\ post.items = pre.items /\ post.overlays = pre.overlays
                /\ a.tag = "SetBoundsY" =>
                      /\ AxisRange(post.bounds, 1) = AxisRange(pre.bounds, 1)
                      /\ post.auto_bounds.x = pre.auto_bounds.x
                      /\ post.items = pre.items /\ post.overlays = pre.overlays
                /\ a.tag = "Translate" =>
                      /\ post.items = pre.items /\ post.overlays = pre.overlays
                      /\ post.events = pre.events
                      /\ AxisRange(post.bounds, 1) =
                            <<pre.bounds.min[1] + a.delta.x, pre.bounds.max[1] + a.delta.x>>
                      /\ AxisRange(post.bounds, 2) =
                            <<pre.bounds.min[2] + a.delta.y, pre.bounds.max[2] + a.delta.y>>
                      /\ \A axis \in {1, 2} : Extent(post.bounds, axis) = Extent(pre.bounds, axis)
                /\ a.tag = "AddItem" =>
                      /\ post.items # pre.items
                      /\ post.bounds = pre.bounds /\ post.auto_bounds = pre.auto_bounds
                      /\ post.overlays = pre.overlays /\ post.events = pre.events
                /\ a.tag = "AddOverlayShape" =>
                      /\ post.overlays # pre.overlays
                      /\ post.bounds = pre.bounds /\ post.auto_bounds = pre.auto_bounds
                      /\ post.items = pre.items /\ post.events = pre.events

\* C36 witness: a queue of SetBoundsX(7..=3), Translate(1, -2) and
\* AddOverlayShape was applied to the bounds [0, 10] x [0, 10].
C36_Witness ==
    /\ Returned
    /\ LastCall.queue = <<SetBoundsX(RangeInclusive(7, 3)), Translate(Vec2(1, -2)),
                          AddOverlayShape("s1")>>
    /\ Result.bounds = PlotBounds(<<8, -2>>, <<4, 8>>)
    /\ Result.overlays = <<"s1">>

(***************************************************************************)
(* Well-formed bounds                                                      *)
(***************************************************************************)
\* min <= max on both axes
WellFormed(b) == b.min[1] <= b.max[1] /\ b.min[2] <= b.max[2]
\* the queue holds SetBoundsX, SetBoundsY and Translate actions only
OnlyRangesAndTranslates(q) ==
    \A k \in 1..Len(q) : q[k].tag \in {"SetBoundsX", "SetBoundsY", "Translate"}
\* every range of a set-range action of the queue has its start at or below
\* its end
RangesInOrder(q) ==
    \A k \in 1..Len(q) : IsSetBounds(q[k]) => q[k].range.start <= q[k].range.end

\* C37 as stated: when the input bounds have min <= max on both axes, the
\* bounds that apply returns for any queue of SetBoundsX, SetBoundsY and
\* Translate actions have min <= max on both axes.
C37_Original ==
    (Returned /\ WellFormed(LastCall.bounds) /\ OnlyRangesAndTranslates(LastCall.queue)) =>
        WellFormed(Result.bounds)

\* C37, amended: when the input bounds have min <= max on both axes and
\* every range carried by a SetBoundsX or SetBoundsY action of the queue has
\* its start at or below its end, the bounds that apply returns for a queue
\* of SetBoundsX, SetBoundsY and Translate actions have min <= max on both
\* axes.
C37_WellFormedForOrderedRanges ==
    ( /\ Returned
      /\ WellFormed(LastCall.bounds)
      /\ OnlyRangesAndTranslates(LastCall.queue)
      /\ RangesInOrder(LastCall.queue) ) => WellFormed(Result.bounds)

\* C37 witness: SetBoundsX(0..=10), Translate(3, 1), SetBoundsY(-4..=6) were
\* applied to [0, 10] x [0, 10] and gave [3, 13] x [-4, 6].
C37_Witness ==
    /\ Returned
    /\ WellFormed(LastCall.bounds)
    /\ LastCall.queue = <<SetBoundsX(RangeInclusive(0, 10)), Translate(Vec2(3, 1)),
                          SetBoundsY(RangeInclusive(-4, 6))>>
    /\ Result.bounds = PlotBounds(<<3, -4>>, <<13, 6>>)

(***************************************************************************)
(* The gesture events and the events buffer                                *)
(***************************************************************************)
\* the events in the order the consumer gets them: those handed over, then
\* those still in the buffer of the result
Stream == IF pc = "applied" THEN log \o applied[1].events ELSE log
IsPanEvent(ev) == ev.tag \in {"PanStarted", "PanDelta", "PanFinished"}
IsBoxZoomEvent(ev) == ev.tag \in {"BoxZoomStarted", "BoxZoomFinished"}
PanLog == SelectSeq(Stream, IsPanEvent)
BoxZoomLog == SelectSeq(Stream, IsBoxZoomEvent)

\* C31: in the event log, every PanDelta and every PanFinished comes after a
\* PanStarted with nothing but PanDelta events of the pan in between; the
\* pan event after a PanFinished is a PanStarted (at most one PanFinished for
\* a PanStarted); a pan that was completed, of one delta or more, has its
\* PanFinished as the last pan event; a pan that was abandoned has ended
\* without a PanFinished, which is a state the log may stay in.
C31_PanLifecycle ==
    /\ \A n \in 1..Len(PanLog) :
          PanLog[n].tag \in {"PanDelta", "PanFinished"} =>
              \E i \in 1..(n - 1) :
                  /\ PanLog[i].tag = "PanStarted"
                  /\ \A j \in (i + 1)..(n - 1) : PanLog[j].tag = "PanDelta"
    /\ \A n \in 1..(Len(PanLog) - 1) :
          PanLog[n].tag = "PanFinished" => PanLog[n + 1].tag = "PanStarted"
    /\ gesture.pan = "finished" =>
          PanLog # <<>> /\ PanLog[Len(PanLog)].tag = "PanFinished"
    /\ gesture.pan \in {"active", "abandoned"} =>
          PanLog # <<>> /\ PanLog[Len(PanLog)].tag \in {"PanStarted", "PanDelta"}

\* C31 witness: a pan of one delta, started in one frame and finished in the
\* next, is in the log of the consumer with its PanStarted and PanFinished.
C31_Witness ==
    /\ Len(calls) = 2
    /\ gesture.pan = "finished"
    /\ log = <<PanStarted, PanDelta(1, -2), PanFinished>>

\* C32: in the event log, the box-zoom event before a BoxZoomFinished is a
\* BoxZoomStarted (so each BoxZoomFinished has its BoxZoomStarted, and a
\* BoxZoomStarted has at most one BoxZoomFinished); an abandoned box zoom has
\* left nothing after its BoxZoomStarted, and no event other than the two
\* marks a box zoom.
C32_BoxZoomLifecycle ==
    /\ \A n \in 1..Len(BoxZoomLog) :
          BoxZoomLog[n].tag = "BoxZoomFinished" =>
              n > 1 /\ BoxZoomLog[n - 1].tag = "BoxZoomStarted"
    /\ gesture.box_zoom = "abandoned" =>
          BoxZoomLog # <<>> /\ BoxZoomLog[Len(BoxZoomLog)].tag = "BoxZoomStarted"
    /\ \A n \in 1..Len(Stream) : IsBoxZoomEvent(Stream[n]) \/ IsPanEvent(Stream[n])

\* C32 witness: a box zoom was abandoned, and the next one was finished.
C32_Witness ==
    /\ gesture.box_zoom = "finished"
    /\ log = <<BoxZoomStarted(<<20, 30>>), BoxZoomStarted(<<20, 30>>),
               BoxZoomFinished(RangeInclusive(0, 10), RangeInclusive(-4, 6))>>

\* take_events was the last call
Taken == observed # None /\ Asked.op = "take_events"
\* the last n elements of s
LastN(s, n) == SubSeq(s, Len(s) - n + 1, Len(s))

\* C38: the events handed over by take_events so far, followed by those in
\* the buffer, are the events apply emitted followed by those the caller
\* pushed through events_mut, in that order; take_events returns all that the
\* buffer holds and leaves it empty, so that a take_events right after
\* another returns the empty list; items, overlays, bounds and auto_bounds
\* of the result stay as apply returned them.
C38_EventsHandedOnce ==
    Returned =>
        /\ handed \o Result.events = LastCall.result.events \o appended
        /\ Taken =>
              /\ Result.events = <<>>
              /\ Len(Asked.value.events) <= Len(handed)
              /\ LastN(handed, Len(Asked.value.events)) = Asked.value.events
              /\ Asked.value.follows_take => Asked.value.events = <<>>
        /\ Result.items = LastCall.result.items
        /\ Result.overlays = LastCall.result.overlays
        /\ Result.bounds = LastCall.result.bounds
        /\ Result.auto_bounds = LastCall.result.auto_bounds

\* C38 witness: after SetBoundsY and SetBoundsX were applied and PanStarted
\* was pushed, the first take_events returned the three events in this order.
C38_Witness ==
    /\ Returned
    /\ LastCall.queue = <<SetBoundsY(RangeInclusive(-4, 6)), SetBoundsX(RangeInclusive(0, 10))>>
    /\ observed = Observed("take_events",
                           [events |-> <<as_event(SetBoundsY(RangeInclusive(-4, 6)))[1],
                                         as_event(SetBoundsX(RangeInclusive(0, 10)))[1],
                                         PanStarted>>,
                            follows_take |-> FALSE])
    /\ Result.events = <<>>

====
